---- MODULE Spec2Model ----
(***************************************************************************)
(* Model of github.com/arg0net/collections, type Ring[T] (src/ring.go).    *)
(*                                                                         *)
(* A Go slice is a window (offset, length) on a backing array; its         *)
(* capacity is the distance from its offset to the end of the array.  The  *)
(* ring keeps one backing array, elements, and two windows on it: right    *)
(* (the spec's "front" view, holding the oldest elements) and left (the    *)
(* spec's "wrap" view).  Every method is a pure operator from a ring       *)
(* record to a result record; the actions apply them to the state.         *)
(***************************************************************************)
EXTENDS Integers, Sequences, FiniteSets, TLC

\* Largest capacity handed to NewRing.
MaxCap == 3
\* Largest number of successful PushBack calls recorded by SpecFifo.
MaxPushes == 6

\* Non-zero element values; two are enough to tell order apart.
Vals == {1, 2}
\* "var zero T": the zero value of the element type.
zero == 0
\* What a caller's output buffer holds before Copy writes into it.
Untouched == 0 - 1

Caps == 0..MaxCap
\* Index and limit arguments: negative, in range and too large.
Indexes == (0 - 1)..(MaxCap + 1)
\* Input slices of PushBatch: <<1, 2, 1, ...>> and <<2, 1, 2, ...>> of every
\* length from empty to oversized; neighbours differ, so order shows.
Batches ==
  {[j \in 1..k |-> IF (j + p) % 2 = 0 THEN 1 ELSE 2] :
     k \in 0..(MaxCap + 1), p \in {0, 1}}
\* Counts a Fill callback may report.
FillCounts == (0 - 1)..(MaxCap + 1)

Min(a, b) == IF a < b THEN a ELSE b

----------------------------------------------------------------------------
(* Go slices over the backing array                                        *)

\* A window elements[off : off+len]; cap is implied by off.
Slice(o, l) == [off |-> o, len |-> l]

\* cap(s) for a window s of r.elements.
SliceCap(r, s) == Len(r.elements) - s.off

\* s[i], 0-based as in Go.
At(r, s, i) == r.elements[s.off + i + 1]

\* The contents of window s, as a sequence.
View(r, s) == [j \in 1..s.len |-> r.elements[s.off + j]]

\* copy(dst, src) where dst = els[dOff : dOff+dLen] and src is the source's
\* contents before the call (Go's copy is a memmove).
CopyInto(els, dOff, dLen, src) ==
  [p \in 1..Len(els) |->
     IF p - 1 >= dOff /\ p - 1 < dOff + Min(dLen, Len(src))
     THEN src[p - dOff] ELSE els[p]]

\* clear(els[from:])
ClearFrom(els, from) ==
  [p \in 1..Len(els) |-> IF p - 1 >= from THEN zero ELSE els[p]]

\* els[p] = v for a physical slot p (0-based).
SetAt(els, p, v) == [els EXCEPT ![p + 1] = v]

----------------------------------------------------------------------------
(* Ring[T]                                                                 *)

NewRing(fixedSize) ==
  [elements |-> [p \in 1..fixedSize |-> zero],
   left     |-> Slice(0, 0),
   right    |-> Slice(0, 0)]

RingLen(r) == r.left.len + r.right.len

RingCap(r) == Len(r.elements)

\* The logical sequence: the right window's elements, then the left's.
Logical(r) == View(r, r.right) \o View(r, r.left)

\* Physical slots (0-based) inside a window.
Slots(s) == {s.off + j : j \in 0..(s.len - 1)}

Occupied(r) == Slots(r.right) \cup Slots(r.left)

\* append(s, e) within capacity: write behind the window and extend it.
AppendIn(r, side, e) ==
  LET s == r[side] IN
  [r EXCEPT !.elements = SetAt(r.elements, s.off + s.len, e),
            ![side] = Slice(s.off, s.len + 1)]

\* PushBack that never wraps: full as soon as the right window is.
PushBackNoWrap(r, e) ==
  IF SliceCap(r, r.right) > r.right.len
  THEN [r |-> AppendIn(r, "right", e), st |-> "ok", ok |-> TRUE]
  ELSE [r |-> r, st |-> "ok", ok |-> FALSE]

PushBack(r, e) ==
  IF SliceCap(r, r.right) > r.right.len
  THEN [r |-> AppendIn(r, "right", e), st |-> "ok", ok |-> TRUE]
  ELSE IF r.left.len + r.right.len = Len(r.elements)
  THEN [r |-> r, st |-> "ok", ok |-> FALSE]
  ELSE IF SliceCap(r, r.left) > r.left.len
  THEN [r |-> AppendIn(r, "left", e), st |-> "ok", ok |-> TRUE]
  \* append beyond cap(left) allocates a new array: left stops being a
  \* window of elements.  The model stops following the ring there.
  ELSE [r |-> r, st |-> "realloc", ok |-> TRUE]

\* PopFront that never swaps the views.
PopFrontNoSwap(r) ==
  IF r.right.len = 0
  THEN [r |-> r, st |-> "ok", val |-> zero, ok |-> FALSE]
  ELSE [r  |-> [r EXCEPT !.elements = SetAt(r.elements, r.right.off, zero),
                         !.right = Slice(r.right.off + 1, r.right.len - 1)],
        st |-> "ok", val |-> At(r, r.right, 0), ok |-> TRUE]

\* PopFront whose view swap forgets to empty left.
PopFrontKeepLeft(r) ==
  IF r.right.len = 0
  THEN [r |-> r, st |-> "ok", val |-> zero, ok |-> FALSE]
  ELSE
    LET rest == Slice(r.right.off + 1, r.right.len - 1)
        r1   == [r EXCEPT !.elements = SetAt(r.elements, r.right.off, zero),
                          !.right = rest]
    IN [r   |-> IF SliceCap(r1, rest) = 0
                THEN [r1 EXCEPT !.right = r.left]
                ELSE r1,
        st  |-> "ok", val |-> At(r, r.right, 0), ok |-> TRUE]

PopFront(r) ==
  IF r.right.len = 0
  THEN [r |-> r, st |-> "ok", val |-> zero, ok |-> FALSE]
  ELSE
    LET el   == At(r, r.right, 0)
        els  == SetAt(r.elements, r.right.off, zero)
        rest == Slice(r.right.off + 1, r.right.len - 1)
        r1   == [r EXCEPT !.elements = els, !.right = rest]
    IN [r   |-> IF SliceCap(r1, rest) = 0
                THEN [r1 EXCEPT !.right = r.left, !.left = Slice(0, 0)]
                ELSE r1,
        st  |-> "ok", val |-> el, ok |-> TRUE]

\* PopIndex that shifts but leaves the vacated slot as it was.
PopIndexNoZero(r, i) ==
  IF i = 0 THEN PopFront(r)
  ELSE IF i < 0 \/ i >= RingLen(r)
  THEN [r |-> r, st |-> "ok", val |-> zero, ok |-> FALSE]
  ELSE
    LET idx == i - r.right.len IN
    IF idx >= 0
    THEN
      LET l    == r.left
          tail == [j \in 1..(l.len - idx - 1) |-> At(r, l, idx + j)]
          els1 == CopyInto(r.elements, l.off + idx, l.len - idx, tail)
      IN [r  |-> [r EXCEPT !.elements = els1, !.left = Slice(l.off, l.len - 1)],
          st |-> "ok", val |-> At(r, l, idx), ok |-> TRUE]
    ELSE
      LET s     == r.right
          front == [j \in 1..i |-> At(r, s, j - 1)]
          els1  == CopyInto(r.elements, s.off + 1, s.len - 1, front)
      IN [r  |-> [r EXCEPT !.elements = els1, !.right = Slice(s.off + 1, s.len - 1)],
          st |-> "ok", val |-> At(r, s, i), ok |-> TRUE]

\* PopIndex that drops the first slot of a window without shifting the
\* elements before index i into it.
PopIndexNoShift(r, i) ==
  IF i = 0 THEN PopFront(r)
  ELSE IF i < 0 \/ i >= RingLen(r)
  THEN [r |-> r, st |-> "ok", val |-> zero, ok |-> FALSE]
  ELSE
    LET idx == i - r.right.len IN
    IF idx >= 0
    THEN [r  |-> [r EXCEPT !.elements = SetAt(r.elements, r.left.off + r.left.len - 1, zero),
                           !.left = Slice(r.left.off, r.left.len - 1)],
          st |-> "ok", val |-> At(r, r.left, idx), ok |-> TRUE]
    ELSE [r  |-> [r EXCEPT !.elements = SetAt(r.elements, r.right.off, zero),
                           !.right = Slice(r.right.off + 1, r.right.len - 1)],
          st |-> "ok", val |-> At(r, r.right, i), ok |-> TRUE]

PopIndex(r, i) ==
  IF i = 0 THEN PopFront(r)
  ELSE IF i < 0 \/ i >= RingLen(r)
  THEN [r |-> r, st |-> "ok", val |-> zero, ok |-> FALSE]
  ELSE
    LET idx == i - r.right.len IN
    IF idx >= 0
    THEN \* shift the tail of left one slot down, zero the vacated last slot
      LET l    == r.left
          tail == [j \in 1..(l.len - idx - 1) |-> At(r, l, idx + j)]
          els1 == CopyInto(r.elements, l.off + idx, l.len - idx, tail)
          els2 == SetAt(els1, l.off + l.len - 1, zero)
      IN [r  |-> [r EXCEPT !.elements = els2, !.left = Slice(l.off, l.len - 1)],
          st |-> "ok", val |-> At(r, l, idx), ok |-> TRUE]
    ELSE \* shift the head of right one slot up, zero the vacated first slot
      LET s    == r.right
          head == [j \in 1..i |-> At(r, s, j - 1)]
          els1 == CopyInto(r.elements, s.off + 1, s.len - 1, head)
          els2 == SetAt(els1, s.off, zero)
      IN [r  |-> [r EXCEPT !.elements = els2, !.right = Slice(s.off + 1, s.len - 1)],
          st |-> "ok", val |-> At(r, s, i), ok |-> TRUE]

\* PeekFront that zeroes the slot it reads, as PopFront does.
PeekFrontZeroes(r) ==
  IF r.right.len = 0
  THEN [r |-> r, st |-> "ok", val |-> zero, ok |-> FALSE]
  ELSE [r  |-> [r EXCEPT !.elements = SetAt(r.elements, r.right.off, zero)],
        st |-> "ok", val |-> At(r, r.right, 0), ok |-> TRUE]

PeekFront(r) ==
  IF r.right.len = 0
  THEN [r |-> r, st |-> "ok", val |-> zero, ok |-> FALSE]
  ELSE [r |-> r, st |-> "ok", val |-> At(r, r.right, 0), ok |-> TRUE]

\* PeekIndex that only knows the right window.
PeekIndexRightOnly(r, i) ==
  IF i = 0 THEN PeekFront(r)
  ELSE IF i < 0 \/ i >= r.right.len
  THEN [r |-> r, st |-> "ok", val |-> zero, ok |-> FALSE]
  ELSE [r |-> r, st |-> "ok", val |-> At(r, r.right, i), ok |-> TRUE]

PeekIndex(r, i) ==
  IF i = 0 THEN PeekFront(r)
  ELSE IF i < 0 \/ i >= RingLen(r)
  THEN [r |-> r, st |-> "ok", val |-> zero, ok |-> FALSE]
  ELSE
    LET idx == i - r.right.len IN
    IF idx >= 0
    THEN [r |-> r, st |-> "ok", val |-> At(r, r.left, idx), ok |-> TRUE]
    ELSE [r |-> r, st |-> "ok", val |-> At(r, r.right, i), ok |-> TRUE]

\* Copy that stops at the end of the right window.
CopyRightOnly(r, out) ==
  [r |-> r, st |-> "ok", n |-> Min(Len(out), r.right.len),
   out |-> CopyInto(out, 0, Len(out), View(r, r.right))]

\* Copy that writes the left window at the start of out, not behind the
\* elements of the right window.
CopyLeftAtStart(r, out) ==
  LET idx  == Min(Len(out), r.right.len)
      out1 == CopyInto(out, 0, Len(out), View(r, r.right))
      n2   == Min(Len(out) - idx, r.left.len)
      out2 == CopyInto(out1, 0, Len(out) - idx, View(r, r.left))
  IN [r |-> r, st |-> "ok", n |-> idx + n2, out |-> out2]

\* Copy(out): out is the caller's buffer; the result holds it after the call.
Copy(r, out) ==
  LET idx  == Min(Len(out), r.right.len)
      out1 == CopyInto(out, 0, Len(out), View(r, r.right))
      n2   == Min(Len(out) - idx, r.left.len)
      out2 == CopyInto(out1, idx, Len(out) - idx, View(r, r.left))
  IN [r |-> r, st |-> "ok", n |-> idx + n2, out |-> out2]

\* Reset that empties the windows without clearing the store.
ResetKeepsStore(r) ==
  [r  |-> [elements |-> r.elements,
           left     |-> Slice(0, 0),
           right    |-> Slice(0, 0)],
   st |-> "ok"]

Reset(r) ==
  [r  |-> [elements |-> ClearFrom(r.elements, 0),
           left     |-> Slice(0, 0),
           right    |-> Slice(0, 0)],
   st |-> "ok"]

\* Scan that reports a match in the left window by its index in that window.
ScanWindowIndex(r, P) ==
  LET inRight == {i \in 0..(r.right.len - 1) : At(r, r.right, i) \in P}
      inLeft  == {i \in 0..(r.left.len - 1) : At(r, r.left, i) \in P}
      first(S) == CHOOSE i \in S : \A j \in S : i <= j
  IN IF inRight # {}
     THEN [r |-> r, st |-> "ok", val |-> At(r, r.right, first(inRight)),
           n |-> first(inRight)]
     ELSE IF inLeft # {}
     THEN [r |-> r, st |-> "ok", val |-> At(r, r.left, first(inLeft)),
           n |-> first(inLeft)]
     ELSE [r |-> r, st |-> "ok", val |-> zero, n |-> 0 - 1]

\* Scan(fn): the predicate fn is modelled by the set P of values it accepts.
Scan(r, P) ==
  LET inRight == {i \in 0..(r.right.len - 1) : At(r, r.right, i) \in P}
      inLeft  == {i \in 0..(r.left.len - 1) : At(r, r.left, i) \in P}
      first(S) == CHOOSE i \in S : \A j \in S : i <= j
  IN IF inRight # {}
     THEN [r |-> r, st |-> "ok", val |-> At(r, r.right, first(inRight)),
           n |-> first(inRight)]
     ELSE IF inLeft # {}
     THEN [r |-> r, st |-> "ok", val |-> At(r, r.left, first(inLeft)),
           n |-> first(inLeft) + r.right.len]
     ELSE [r |-> r, st |-> "ok", val |-> zero, n |-> 0 - 1]

Compact(r) ==
  LET N    == Len(r.elements)
      els1 == CopyInto(r.elements, 0, N, View(r, r.right))
  IN IF r.left.len = 0
     THEN [r  |-> [r EXCEPT !.elements = ClearFrom(els1, r.right.len),
                            !.right = Slice(0, r.right.len)],
           st |-> "ok"]
     ELSE
       LET size == RingLen(r)
           els2 == CopyInto(els1, r.right.len, N - r.right.len, View(r, r.left))
       IN IF size > N
          \* clear(r.elements[size:]) is out of range; the copies are done.
          THEN [r |-> [r EXCEPT !.elements = els2], st |-> "panic"]
          ELSE [r  |-> [elements |-> ClearFrom(els2, size),
                        left     |-> Slice(0, 0),
                        right    |-> Slice(0, size)],
                st |-> "ok"]

\* The slice Fill hands to its callback, as a window of elements; len = -1
\* when neither branch is taken and the callback is not invoked.
FillOffer(r) ==
  IF SliceCap(r, r.right) # r.right.len
  THEN Slice(r.right.len, Len(r.elements) - r.right.len)
  ELSE IF SliceCap(r, r.left) # r.left.len
  THEN Slice(r.left.len, SliceCap(r, r.left) - r.left.len)
  ELSE Slice(0, 0 - 1)

\* Fill(fn): the callback writes data into the first Len(data) slots of the
\* slice it is handed and returns n.
Fill(r, data, n) ==
  LET offer == FillOffer(r)
      r1    == [r EXCEPT !.elements =
                  CopyInto(r.elements, offer.off, offer.len, data)]
  IN IF SliceCap(r, r.right) # r.right.len
     THEN IF n > 0 /\ n <= SliceCap(r, r.right) - r.right.len
          THEN [r  |-> [r1 EXCEPT !.right = Slice(r.right.off, r.right.len + n)],
                st |-> "ok", n |-> n, called |-> TRUE]
          ELSE [r |-> r1, st |-> "ok", n |-> 0, called |-> TRUE]
     ELSE IF SliceCap(r, r.left) # r.left.len
     THEN IF n > 0 /\ n <= SliceCap(r, r.left) - r.left.len
          THEN [r  |-> [r1 EXCEPT !.left = Slice(r.left.off, r.left.len + n)],
                st |-> "ok", n |-> n, called |-> TRUE]
          ELSE [r |-> r1, st |-> "ok", n |-> 0, called |-> TRUE]
     ELSE [r |-> r, st |-> "ok", n |-> 0, called |-> FALSE]

PushBatch(r, arr) ==
  LET N    == Len(r.elements)
      room == SliceCap(r, r.right) - r.right.len
      n1   == IF room > 0 THEN Min(room, Len(arr)) ELSE 0
      r1   == IF room > 0
              THEN [r EXCEPT !.elements =
                       CopyInto(r.elements, r.right.off + r.right.len, room, arr),
                     !.right = Slice(r.right.off, r.right.len + n1)]
              ELSE r
      rest == SubSeq(arr, n1 + 1, Len(arr))
  IN IF Len(rest) = 0
     THEN [r |-> r1, st |-> "ok", n |-> n1]
     ELSE
       LET mmax == Min(Len(rest), N - r1.right.len - r1.left.len) IN
       IF mmax < 0
       \* arr[:mmax] with a negative bound
       THEN [r |-> r1, st |-> "panic", n |-> n1]
       \* copied behind len(left), but r.left is not extended
       ELSE [r  |-> [r1 EXCEPT !.elements =
                       CopyInto(r1.elements, r1.left.len, N - r1.left.len,
                                SubSeq(rest, 1, mmax))],
             st |-> "ok",
             n  |-> n1 + Min(N - r1.left.len, mmax)]

\* Limit(limit): v is the ring the call returns (a view sharing elements).
Limit(r, limit) ==
  IF RingLen(r) <= limit
  THEN [r |-> r, st |-> "ok", v |-> r]
  ELSE
    LET extra == limit - r.right.len IN
    IF extra <= 0
    THEN IF limit < 0
         \* r.right[:limit] with a negative bound
         THEN [r |-> r, st |-> "panic", v |-> r]
         ELSE [r |-> r, st |-> "ok",
               v |-> [elements |-> r.elements,
                      right    |-> Slice(r.right.off, limit),
                      left     |-> Slice(0, 0)]]
    ELSE [r |-> r, st |-> "ok",
          v |-> [elements |-> r.elements,
                 right    |-> r.right,
                 left     |-> Slice(r.left.off, extra)]]

\* All(): the sequence a range over r.All() yields (spec 4.1: all occupied
\* elements in logical order, the buffer not consumed).
All(r) == [r |-> r, st |-> "ok", out |-> Logical(r)]

\* r.WriteTo(out): out is another ring; the result holds it after the call.
WriteTo(r, out) ==
  LET p1 == PushBatch(out, View(r, r.right)) IN
  IF p1.st = "ok" /\ r.left.len > 0 /\ p1.n = r.right.len
  THEN LET p2 == PushBatch(p1.r, View(r, r.left)) IN
       [r |-> r, out |-> p2.r, st |-> p2.st, n |-> p1.n + p2.n]
  ELSE [r |-> r, out |-> p1.r, st |-> p1.st, n |-> p1.n]

\* n calls of PopFront.
RECURSIVE PopN(_, _)
PopN(r, n) == IF n <= 0 THEN r ELSE PopN(PopFront(r).r, n - 1)

\* PushBack of each element of vals in turn; refused elements are skipped.
RECURSIVE PushEach(_, _)
PushEach(r, vals) ==
  IF Len(vals) = 0 THEN r ELSE PushEach(PushBack(r, Head(vals)).r, Tail(vals))

\* The values repeated PopFront calls return until one reports ok = false.
RECURSIVE Drain(_)
Drain(r) ==
  LET res == PopFront(r) IN
  IF res.ok THEN <<res.val>> \o Drain(res.r) ELSE <<>>

\* How many of the PushBack calls, one per element of vals, return true.
RECURSIVE Accepted(_, _)
Accepted(r, vals) ==
  IF Len(vals) = 0 THEN 0
  ELSE LET res == PushBack(r, Head(vals)) IN
       (IF res.ok THEN 1 ELSE 0) + Accepted(res.r, Tail(vals))

\* Drop(n), n >= 0 (spec 4.1): n >= Len() is Reset(); otherwise the first n
\* elements are consumed from the front view and then from the wrap view,
\* each consumed slot zeroed, the views swapped as PopFront swaps them.
Drop(r, n) ==
  IF n >= RingLen(r) THEN Reset(r) ELSE [r |-> PopN(r, n), st |-> "ok"]

\* Skip(n) (spec 4.1): Drop that returns the number of elements skipped.
Skip(r, n) ==
  LET res == Drop(r, n) IN
  [r |-> res.r, st |-> res.st, n |-> Min(n, RingLen(r))]

\* Read(out) (spec 4.1): Copy, then Drop of the copied prefix; end of data
\* when the ring is empty.
Read(r, out) ==
  IF RingLen(r) = 0
  THEN [r |-> r, st |-> "ok", n |-> 0, err |-> "EOF", out |-> out]
  ELSE LET c == Copy(r, out)
           d == Drop(r, c.n)
       IN [r |-> d.r, st |-> d.st, n |-> c.n, err |-> "nil", out |-> c.out]

\* Write(in) (spec 4.1): PushBatch of in; "no space" when no capacity is
\* available, "short write" when only a prefix of in fitted.
Write(r, in) ==
  IF RingCap(r) - RingLen(r) = 0
  THEN [r |-> r, st |-> "ok", n |-> 0, err |-> "no space"]
  ELSE LET p == PushBatch(r, in) IN
       [r |-> p.r, st |-> p.st, n |-> p.n,
        err |-> IF p.n < Len(in) THEN "short write" ELSE "nil"]

\* Resize(newCapacity) (spec 4.1): an error and no change when the contents
\* do not fit; otherwise a new zeroed store of newCapacity elements receives
\* the contents in logical order as one front region.
Resize(r, newCapacity) ==
  IF newCapacity < RingLen(r)
  THEN [r |-> r, st |-> "ok", err |-> "error"]
  ELSE [r  |-> [elements |-> Copy(r, [j \in 1..newCapacity |-> zero]).out,
                left     |-> Slice(0, 0),
                right    |-> Slice(0, RingLen(r))],
        st |-> "ok", err |-> "nil"]

----------------------------------------------------------------------------
(* fakeRing: the reference queue of the fuzz test, a plain bounded array   *)

NewFake(size) == [elements |-> <<>>, cap |-> size]

FakePushBack(f, e) ==
  IF Len(f.elements) = f.cap
  THEN [f |-> f, ok |-> FALSE]
  ELSE [f |-> [f EXCEPT !.elements = Append(f.elements, e)], ok |-> TRUE]

FakePopFront(f) ==
  IF Len(f.elements) = 0
  THEN [f |-> f, val |-> 0, ok |-> FALSE]
  ELSE [f |-> [f EXCEPT !.elements = Tail(f.elements)],
        val |-> Head(f.elements), ok |-> TRUE]

FakeCopy(f, out) ==
  [f |-> f, n |-> Min(Len(out), Len(f.elements)),
   out |-> CopyInto(out, 0, Len(out), f.elements)]

FakePopIndex(f, i) ==
  IF i < 0 \/ i >= Len(f.elements)
  THEN [f |-> f, val |-> 0, ok |-> FALSE]
  ELSE [f |-> [f EXCEPT !.elements =
                 SubSeq(f.elements, 1, i) \o SubSeq(f.elements, i + 2, Len(f.elements))],
        val |-> f.elements[i + 1], ok |-> TRUE]

FakePeekIndex(f, idx) ==
  IF idx < 0 \/ idx >= Len(f.elements)
  THEN [f |-> f, val |-> 0, ok |-> FALSE]
  ELSE [f |-> f, val |-> f.elements[idx + 1], ok |-> TRUE]

----------------------------------------------------------------------------
(* Channel[T]: the pub/sub channel (src/unnamed/part_000, first revision)  *)
(*                                                                         *)
(* The messages form a linked list that only grows at its tail.  Node k    *)
(* (1-based) is the k-th message whose Publish took effect; the node after *)
(* the last one is c.next, the message still to be written.  A node's      *)
(* final channel is closed once the node holds a value, or, for c.next,    *)
(* once the channel is closed.                                             *)

\* Largest number of Publish calls; the k-th call publishes the value k.
MaxPublish == 2

\* "var c Channel[T]": no message node yet.
NewChannel == [hasHead |-> FALSE, closed |-> FALSE, log |-> <<>>]

\* Publish that links the value in twice.
PublishTwice(c, value) ==
  IF ~c.hasHead \/ c.closed
  THEN c ELSE [c EXCEPT !.log = @ \o <<value, value>>]

\* Publish: dropped when nobody ever subscribed or the channel is closed.
Publish(c, value) ==
  IF ~c.hasHead \/ c.closed THEN c ELSE [c EXCEPT !.log = Append(@, value)]

\* Close: creates the tail node if needed, marks it closed, closes final.
Close(c) == [c EXCEPT !.hasHead = TRUE, !.closed = TRUE]

\* head that hands out the first node of the list instead of its tail.
headAtFirst(c) == [c |-> [c EXCEPT !.hasHead = TRUE], next |-> 1]

\* head: the tail node (created if needed) and the channel afterwards.
head(c) == [c |-> [c EXCEPT !.hasHead = TRUE], next |-> Len(c.log) + 1]

\* Close that marks the tail node closed without closing its final channel.
FinalOpenAtClose(c, k) == k <= Len(c.log)

\* Whether "<-next.final" can proceed for node k.
FinalClosed(c, k) == k <= Len(c.log) \/ (k = Len(c.log) + 1 /\ c.closed)

\* next.closed for node k, read after its final channel was closed.
NodeClosed(c, k) == k = Len(c.log) + 1 /\ c.closed

\* The subscribers and the method each one subscribes with.
Kind == [sub |-> "Subscribe", watch |-> "Watch", recv |-> "Receive"]
Subs == DOMAIN Kind

\* A subscriber before its call: pc is "new", "run" or "done"; next the node
\* it waits on; got what its callback was handed; stop whether its stop
\* channel (Subscribe) or context (Watch) is closed; result how it ended:
\* "closed" (Watch returns nil, the others just return), "stop", "ctx",
\* "err" (the callback's error) or "break" (yield returned false); since is
\* the number of Publish calls made before it subscribed; done whether the
\* Subscription's done channel is closed; st turns to "panic" when the stop
\* channel is closed a second time.
NoSub ==
  [pc |-> "new", next |-> 0, got |-> <<>>, stop |-> FALSE, result |-> "",
   since |-> 0, done |-> FALSE, st |-> "ok"]

\* Cancel without the Once: every call closes the stop channel.
CloseStopEachTime(me) ==
  [me EXCEPT !.stop = TRUE, !.st = IF me.stop THEN "panic" ELSE @]

\* s.once.Do(func() { close(s.stop) }): only the first call closes.
CloseStop(me) == IF me.stop THEN me ELSE [me EXCEPT !.stop = TRUE]

----------------------------------------------------------------------------
(* Queue[T] (src/unnamed/part_001)                                         *)
(*                                                                         *)
(* The signal channels the queue makes are numbered in the order they are  *)
(* made; closed is the set of those that have been closed.                 *)

\* Largest number of Enqueue calls; the k-th call enqueues the item k.
MaxEnqueue == 3

NewQueue == [items |-> <<>>, available |-> 1, closed |-> {}, st |-> "ok"]

\* Enqueue that appends without closing the signal.
EnqueueNoSignal(q, item) == [q EXCEPT !.items = Append(@, item)]

\* Enqueue: closes the signal when the queue was empty (closing a closed
\* channel panics), then appends.
Enqueue(q, item) ==
  [q EXCEPT !.items = Append(@, item),
            !.closed = IF Len(q.items) = 0 THEN @ \cup {q.available} ELSE @,
            !.st = IF Len(q.items) = 0 /\ q.available \in q.closed
                   THEN "panic" ELSE @]

\* Dequeue that returns the first item and leaves it in the queue.
DequeueKeepsItem(q) ==
  IF Len(q.items) = 0
  THEN [q |-> q, item |-> zero, ok |-> FALSE]
  ELSE [q |-> q, item |-> Head(q.items), ok |-> TRUE]

\* Dequeue: taking the last item replaces the signal by a fresh channel.
Dequeue(q) ==
  IF Len(q.items) = 0
  THEN [q |-> q, item |-> zero, ok |-> FALSE]
  ELSE [q |-> IF Len(q.items) = 1
              THEN [q EXCEPT !.items = <<>>, !.available = @ + 1]
              ELSE [q EXCEPT !.items = Tail(@)],
        item |-> Head(q.items), ok |-> TRUE]

\* Clear that empties the queue and keeps its signal channel.
ClearKeepsSignal(q) == [q EXCEPT !.items = <<>>]

\* Clear: a non-empty queue is emptied and gets a fresh signal.
Clear(q) ==
  IF Len(q.items) > 0
  THEN [q EXCEPT !.items = <<>>, !.available = @ + 1]
  ELSE q

\* The consumers and what each one calls.
QKind == [w |-> "Wait", a |-> "All", d |-> "Dequeue"]
Consumers == DOMAIN QKind

\* A consumer between calls: pc is "idle", "select" (inside Wait, after it
\* read the signal), "dequeue" (an iterator whose Wait returned nil) or
\* "done"; ch the signal Wait read; cancelled its context; result what the
\* last Wait returned ("nil" or "ctx") or why the iterator ended ("ctx",
\* "break"); yielded what an iterator handed to its loop body; woken
\* records whether the queue was non-empty when Wait read the signal or
\* became so since.
NoConsumer ==
  [pc |-> "idle", ch |-> 0, cancelled |-> FALSE, result |-> "",
   yielded |-> <<>>, woken |-> FALSE]

----------------------------------------------------------------------------
(* Future[T] (src/queue_test.go, lines 135-176)                            *)

\* once is the sync.Once: "new", "running" (its function is executing, the
\* other callers of Do block) or "done"; done whether the done channel is
\* closed; st turns to "panic" on a second close.
NewFuture == [once |-> "new", value |-> zero, done |-> FALSE, st |-> "ok"]

\* A Once that lets its function run again after it has completed.
DoAgain(f) == TRUE

\* sync.Once.Do, entered with no call of the function in progress: whether
\* this caller runs the function.
Do(f) == f.once = "new"

\* Get that does not wait for the done channel.
GetNoWait(f, cancelled, inflight) ==
  {[val |-> f.value, err |-> "nil"]}
  \cup (IF cancelled THEN {[val |-> f.value, err |-> "ctx"]} ELSE {})

\* Get: the results its select can produce now (none: it blocks).  The
\* ctx.Done case reads f.value with no synchronisation: before the done
\* channel is closed the read races with Set's write and yields the zero
\* value, the stored value or a value being stored (inflight).
Get(f, cancelled, inflight) ==
  (IF f.done THEN {[val |-> f.value, err |-> "nil"]} ELSE {})
  \cup (IF cancelled
        THEN {[val |-> v, err |-> "ctx"] :
                v \in IF f.done THEN {f.value}
                      ELSE {zero, f.value} \cup inflight}
        ELSE {})

Setters == {"set1", "set2", "set3"}
Getters == {"get1", "get2"}
Callers == Setters \cup Getters

\* A caller before its call: pc is "idle", then for Set "store", "close",
\* "unlock", "return", for Get "select", and "returned" at the end; arg is
\* Set's argument; val, ok and err what the call returned; cancelled the
\* context of a Get; early whether a Get started before the done channel
\* was closed.
NoCall ==
  [pc |-> "idle", arg |-> zero, val |-> zero, ok |-> FALSE, err |-> "",
   cancelled |-> FALSE, early |-> FALSE]

----------------------------------------------------------------------------
(* WatchFutures (src/queue_test.go, lines 178-217)                         *)

\* Largest number of futures handed to WatchFutures.
MaxFutures == 2

\* Set as the iterator can observe it: the value is stored before the done
\* channel is closed, and only the first call does either.
SetNow(f, value) ==
  IF Do(f)
  THEN [f EXCEPT !.once = "done", !.value = value, !.done = TRUE]
  ELSE f

\* The iterator: pc is "none", "made" (the futures exist), "select",
\* "get" (a case was chosen), "done"; chosen the index chosen (0-based);
\* spent the cases whose channel was set to nil; remaining as in the code;
\* yielded the <<index, value>> pairs handed to the loop body; cancelled
\* the context; result why it ended: "ctx", "break" or "all".
NoWatcher ==
  [pc |-> "none", chosen |-> 0, spent |-> {}, remaining |-> 0,
   yielded |-> <<>>, cancelled |-> FALSE, result |-> ""]

----------------------------------------------------------------------------
(* StatefulNotifier[T] (src/unnamed/part_005) and WaitAny                  *)
(* (src/notifier_utils.go)                                                 *)
(*                                                                         *)
(* The channels a notifier makes are numbered from 1 in the order they are *)
(* made; updated = 0 is the nil channel.                                   *)

\* Largest number of Store and Update calls on one notifier.
MaxStore == 2

Notifiers == {1, 2}

\* held is the history of the values the notifier has held and how the
\* call that stored each one ("Store" or "Update"); mu the caller holding
\* the mutex across the two steps of Update ("" when free).
NewStatefulNotifier(initial) ==
  [value |-> initial, updated |-> 0, made |-> 0, closed |-> {},
   mu |-> "", held |-> <<initial>>, how |-> <<"New">>, st |-> "ok"]

\* A mutex that never keeps anybody out.
NeverLocked(n) == FALSE

\* n.mu is held.
Locked(n) == n.mu # ""

\* Store that sets the value and leaves the channel alone.
StoreNoClose(n, value, by) ==
  [n EXCEPT !.value = value, !.held = Append(@, value),
            !.how = Append(@, by)]

\* The body of Store, and of Update once its function has returned value:
\* set the value, close the channel if there is one and forget it.
Store(n, value, by) ==
  [n EXCEPT !.value = value,
            !.held = Append(@, value),
            !.how = Append(@, by),
            !.closed = IF n.updated # 0 THEN @ \cup {n.updated} ELSE @,
            !.updated = 0,
            !.st = IF n.updated # 0 /\ n.updated \in n.closed
                   THEN "panic" ELSE @]

\* Load that returns the zero value in place of the notifier's.
LoadZero(n) ==
  LET n1 == IF n.updated = 0
            THEN [n EXCEPT !.made = @ + 1, !.updated = n.made + 1]
            ELSE n
  IN [n |-> n1, v |-> zero, ch |-> n1.updated]

\* Load: makes the channel if there is none; returns value and channel.
Load(n) ==
  LET n1 == IF n.updated = 0
            THEN [n EXCEPT !.made = @ + 1, !.updated = n.made + 1]
            ELSE n
  IN [n |-> n1, v |-> n.value, ch |-> n1.updated]

\* The function handed to Update: add one.
Bump(v) == v + 1

\* The condition handed to Wait and WaitAny.
Wanted(v) == v = 2

\* The callers on the first notifier and what each one calls.
NKind == [wt |-> "Wait", wa |-> "Watch", u1 |-> "Update", u2 |-> "Update"]
Listeners == DOMAIN NKind

\* A caller before its call: pc is "idle", "select" (Wait and Watch, after
\* a Load), "locked" (Update, holding the mutex), "returned"; v and ch what
\* the last Load returned; at the position in held of that value; tmp the
\* result of Update's function; yielded and seen the values a Watch handed
\* to the loop body and their positions in held; cancelled the context;
\* err and ret what the call returned.
NoListener ==
  [pc |-> "idle", v |-> zero, ch |-> 0, at |-> 0, tmp |-> zero,
   yielded |-> <<>>, seen |-> <<>>, cancelled |-> FALSE, err |-> "",
   ret |-> zero]

\* The caller of WaitAny: objs the notifiers it was given; chs the channel
\* of each select case built so far; pre whether its context was cancelled
\* before the call; val and idx what it returned; from the position in
\* held of the value it returned.
NoWaitAny ==
  [pc |-> "idle", objs |-> <<>>, chs |-> <<>>, cancelled |-> FALSE,
   pre |-> FALSE, val |-> zero, idx |-> 0, from |-> 0]

----------------------------------------------------------------------------
(* State                                                                   *)

VARIABLES
  ring,    \* the Ring under test
  st,      \* "ok", or how the last call ended the run: "panic", "realloc"
  ret,     \* the last call: its name, arguments and results
  fake,    \* the fuzz test's reference queue (SpecCore)
  fret,    \* the reference queue's results for the last call (SpecCore)
  pushed,  \* values of the successful PushBack calls, in order (SpecFifo)
  popped,  \* values of the successful PopFront calls, in order (SpecFifo)
  channel,   \* the pub/sub Channel
  subs,      \* its subscribers, one record each
  published, \* number of Publish calls so far; the k-th publishes value k
  queue,     \* the Queue
  consumers, \* the queue's Wait callers, All iterators and Dequeue callers
  enqueued,  \* items in the order their Enqueue calls took effect
  taken,     \* <<item, consumer>> in the order the Dequeue calls took effect
  future,    \* the Future
  calls,     \* the future's Set and Get callers, one record each
  futures,   \* the futures handed to WatchFutures
  watcher,   \* the WatchFutures iterator
  setOrder,  \* indexes of those futures in the order they were set
  notifiers, \* the StatefulNotifiers
  listeners, \* callers of Wait, Watch and Update on the first notifier
  anyone     \* the caller of WaitAny

\* The futures under WatchFutures and the notifiers.
Latecomers == <<futures, watcher, setOrder, notifiers, listeners, anyone>>

\* The variables of the types other than Ring.
Elsewhere ==
  <<channel, subs, published, queue, consumers, enqueued, taken, future,
    calls, Latecomers>>

vars ==
  <<ring, st, ret, fake, fret, pushed, popped, channel, subs, published,
    queue, consumers, enqueued, taken, future, calls, futures, watcher,
    setOrder, notifiers, listeners, anyone>>

\* Before any call on the channel, the queue and the future.
InitElsewhere ==
  /\ channel = NewChannel
  /\ subs = [s \in Subs |-> NoSub]
  /\ published = 0
  /\ queue = NewQueue
  /\ consumers = [p \in Consumers |-> NoConsumer]
  /\ enqueued = <<>>
  /\ taken = <<>>
  /\ future = NewFuture
  /\ calls = [p \in Callers |-> NoCall]
  /\ futures = <<>>
  /\ watcher = NoWatcher
  /\ setOrder = <<>>
  /\ notifiers = [i \in Notifiers |-> NewStatefulNotifier(zero)]
  /\ listeners = [p \in Listeners |-> NoListener]
  /\ anyone = NoWaitAny

\* One call: op(arg, items) returned (val, ok, n) and left out in the
\* caller's buffer.  Fields a method does not have keep their zero value.
\* For Fill: items is what the callback wrote, arg the count it reported,
\* ok whether it was invoked, out = <<offset, length>> of the slice offered.
Ret(op, arg, items, val, ok, n, out) ==
  [op |-> op, arg |-> arg, items |-> items, val |-> val, ok |-> ok,
   n |-> n, out |-> out]

\* A caller's buffer of m slots.
Buffer(m) == [j \in 1..m |-> Untouched]

Init ==
  /\ ring \in {NewRing(c) : c \in Caps}
  /\ st = "ok"
  /\ ret = Ret("NewRing", 0, <<>>, zero, TRUE, 0, <<>>)
  /\ fake = NewFake(RingCap(ring))
  /\ fret = Ret("NewRing", 0, <<>>, zero, TRUE, 0, <<>>)
  /\ pushed = <<>>
  /\ popped = <<>>
  /\ InitElsewhere

----------------------------------------------------------------------------
(* The calls on the ring; each leaves the observers to the specification   *)

CallPushBack(e) ==
  LET res == PushBack(ring, e) IN
  /\ st = "ok"
  /\ ring' = res.r
  /\ st' = res.st
  /\ ret' = Ret("PushBack", e, <<>>, zero, res.ok, 0, <<>>)

CallPopFront ==
  LET res == PopFront(ring) IN
  /\ st = "ok"
  /\ ring' = res.r
  /\ st' = res.st
  /\ ret' = Ret("PopFront", 0, <<>>, res.val, res.ok, 0, <<>>)

CallPopIndex(i) ==
  LET res == PopIndex(ring, i) IN
  /\ st = "ok"
  /\ ring' = res.r
  /\ st' = res.st
  /\ ret' = Ret("PopIndex", i, <<>>, res.val, res.ok, 0, <<>>)

CallPeekFront ==
  LET res == PeekFront(ring) IN
  /\ st = "ok"
  /\ ring' = res.r
  /\ st' = res.st
  /\ ret' = Ret("PeekFront", 0, <<>>, res.val, res.ok, 0, <<>>)

CallPeekIndex(i) ==
  LET res == PeekIndex(ring, i) IN
  /\ st = "ok"
  /\ ring' = res.r
  /\ st' = res.st
  /\ ret' = Ret("PeekIndex", i, <<>>, res.val, res.ok, 0, <<>>)

CallCopy(m) ==
  LET res == Copy(ring, Buffer(m)) IN
  /\ st = "ok"
  /\ ring' = res.r
  /\ st' = res.st
  /\ ret' = Ret("Copy", m, <<>>, zero, TRUE, res.n, res.out)

CallReset ==
  LET res == Reset(ring) IN
  /\ st = "ok"
  /\ ring' = res.r
  /\ st' = res.st
  /\ ret' = Ret("Reset", 0, <<>>, zero, TRUE, 0, <<>>)

\* Scan with the predicate "v == e".
CallScan(e) ==
  LET res == Scan(ring, {e}) IN
  /\ st = "ok"
  /\ ring' = res.r
  /\ st' = res.st
  /\ ret' = Ret("Scan", e, <<>>, res.val, res.n >= 0, res.n, <<>>)

CallCompact ==
  LET res == Compact(ring) IN
  /\ st = "ok"
  /\ ring' = res.r
  /\ st' = res.st
  /\ ret' = Ret("Compact", 0, <<>>, zero, TRUE, 0, <<>>)

\* Fill with a callback that reports n and has written the value e into
\* that many slots of the slice it was handed, as far as the slice reaches.
CallFill(e, n) ==
  LET offer == FillOffer(ring)
      k     == IF n < 0 THEN 0 ELSE Min(n, offer.len)
      data  == [j \in 1..k |-> e]
      res   == Fill(ring, data, n)
  IN
  /\ st = "ok"
  /\ ring' = res.r
  /\ st' = res.st
  /\ ret' = Ret("Fill", n, IF res.called THEN data ELSE <<>>, zero,
                res.called, res.n, <<offer.off, offer.len>>)

CallPushBatch(arr) ==
  LET res == PushBatch(ring, arr) IN
  /\ st = "ok"
  /\ ring' = res.r
  /\ st' = res.st
  /\ ret' = Ret("PushBatch", 0, arr, zero, TRUE, res.n, <<>>)

\* Limit: view is the ring returned; n and out record its Len() and logical
\* sequence.
CallLimit(limit) ==
  LET res == Limit(ring, limit) IN
  /\ st = "ok"
  /\ ring' = res.r
  /\ st' = res.st
  /\ ret' = Ret("Limit", limit, <<>>, zero, res.v = ring,
                RingLen(res.v), Logical(res.v)) @@ [view |-> res.v]

CallAll ==
  LET res == All(ring) IN
  /\ st = "ok"
  /\ ring' = res.r
  /\ st' = res.st
  /\ ret' = Ret("All", 0, <<>>, zero, TRUE, Len(res.out), res.out)

\* src.WriteTo(ring): the ring under test is the destination.
CallWriteTo(src) ==
  LET res == WriteTo(src, ring) IN
  /\ st = "ok"
  /\ ring' = res.out
  /\ st' = res.st
  /\ ret' = Ret("WriteTo", 0, Logical(src), zero, TRUE, res.n, <<>>)
              @@ [src |-> src, srcAfter |-> res.r]

CallWrite(in) ==
  LET res == Write(ring, in) IN
  /\ st = "ok"
  /\ ring' = res.r
  /\ st' = res.st
  /\ ret' = Ret("Write", 0, in, zero, TRUE, res.n, <<>>) @@ [err |-> res.err]

CallRead(m) ==
  LET res == Read(ring, Buffer(m)) IN
  /\ st = "ok"
  /\ ring' = res.r
  /\ st' = res.st
  /\ ret' = Ret("Read", m, <<>>, zero, TRUE, res.n, res.out)
              @@ [err |-> res.err]

CallDrop(n) ==
  LET res == Drop(ring, n) IN
  /\ st = "ok"
  /\ ring' = res.r
  /\ st' = res.st
  /\ ret' = Ret("Drop", n, <<>>, zero, TRUE, 0, <<>>)

CallSkip(n) ==
  LET res == Skip(ring, n) IN
  /\ st = "ok"
  /\ ring' = res.r
  /\ st' = res.st
  /\ ret' = Ret("Skip", n, <<>>, zero, TRUE, res.n, <<>>)

CallResize(newCapacity) ==
  LET res == Resize(ring, newCapacity) IN
  /\ st = "ok"
  /\ ring' = res.r
  /\ st' = res.st
  /\ ret' = Ret("Resize", newCapacity, <<>>, zero, TRUE, 0, <<>>)
              @@ [err |-> res.err]

Observers == <<fake, fret, pushed, popped, Elsewhere>>

Next ==
  \/ \E e \in Vals : CallPushBack(e) /\ UNCHANGED Observers
  \/ CallPopFront /\ UNCHANGED Observers
  \/ \E i \in Indexes : CallPopIndex(i) /\ UNCHANGED Observers
  \/ CallPeekFront /\ UNCHANGED Observers
  \/ \E i \in Indexes : CallPeekIndex(i) /\ UNCHANGED Observers
  \/ \E m \in 0..(MaxCap + 1) : CallCopy(m) /\ UNCHANGED Observers
  \/ CallReset /\ UNCHANGED Observers
  \/ \E e \in Vals : CallScan(e) /\ UNCHANGED Observers
  \/ CallCompact /\ UNCHANGED Observers
  \/ \E e \in Vals, n \in FillCounts : CallFill(e, n) /\ UNCHANGED Observers
  \/ \E arr \in Batches : CallPushBatch(arr) /\ UNCHANGED Observers
  \/ \E limit \in Indexes : CallLimit(limit) /\ UNCHANGED Observers
  \/ CallAll /\ UNCHANGED Observers

Spec == Init /\ [][Next]_vars

\* Every call but Fill.
NextNoFill ==
  \/ \E e \in Vals : CallPushBack(e) /\ UNCHANGED Observers
  \/ CallPopFront /\ UNCHANGED Observers
  \/ \E i \in Indexes : CallPopIndex(i) /\ UNCHANGED Observers
  \/ CallPeekFront /\ UNCHANGED Observers
  \/ \E i \in Indexes : CallPeekIndex(i) /\ UNCHANGED Observers
  \/ \E m \in 0..(MaxCap + 1) : CallCopy(m) /\ UNCHANGED Observers
  \/ CallReset /\ UNCHANGED Observers
  \/ \E e \in Vals : CallScan(e) /\ UNCHANGED Observers
  \/ CallCompact /\ UNCHANGED Observers
  \/ \E arr \in Batches : CallPushBatch(arr) /\ UNCHANGED Observers
  \/ \E limit \in Indexes : CallLimit(limit) /\ UNCHANGED Observers
  \/ CallAll /\ UNCHANGED Observers

SpecNoFill == Init /\ [][NextNoFill]_vars

\* The rings WriteTo reads from: a ring of capacity MaxCap filled up, with
\* b elements popped and d pushed again, so that the elements sit at the
\* start of the store, at an offset, or wrapped.
Sources ==
  LET full == PushEach(NewRing(MaxCap), [j \in 1..MaxCap |-> 1 + (j % 2)]) IN
  UNION {{PushEach(PopN(full, b), [j \in 1..d |-> 1 + ((j + 1) % 2)]) :
            d \in 0..b} : b \in 0..MaxCap}

\* The stream and bulk calls, on rings in every state the basic calls and
\* Fill lead to.
NextStream ==
  \/ \E e \in Vals : CallPushBack(e) /\ UNCHANGED Observers
  \/ CallPopFront /\ UNCHANGED Observers
  \/ \E n \in FillCounts : CallFill(1, n) /\ UNCHANGED Observers
  \/ \E src \in Sources : CallWriteTo(src) /\ UNCHANGED Observers
  \/ \E in \in Batches : CallWrite(in) /\ UNCHANGED Observers
  \/ \E m \in 0..(MaxCap + 1) : CallRead(m) /\ UNCHANGED Observers
  \/ \E n \in 0..(MaxCap + 1) : CallDrop(n) /\ UNCHANGED Observers
  \/ \E n \in 0..(MaxCap + 1) : CallSkip(n) /\ UNCHANGED Observers

SpecStream == Init /\ [][NextStream]_vars

\* Resize, on rings in every state the basic calls and Fill lead to.
NextResize ==
  \/ \E e \in Vals : CallPushBack(e) /\ UNCHANGED Observers
  \/ CallPopFront /\ UNCHANGED Observers
  \/ \E i \in Indexes : CallPopIndex(i) /\ UNCHANGED Observers
  \/ \E n \in FillCounts : CallFill(1, n) /\ UNCHANGED Observers
  \/ \E n \in Caps : CallResize(n) /\ UNCHANGED Observers

SpecResize == Init /\ [][NextResize]_vars

\* The calls that add and remove single elements, with Compact and Reset.
NextSingles ==
  \/ \E e \in Vals : CallPushBack(e) /\ UNCHANGED Observers
  \/ CallPopFront /\ UNCHANGED Observers
  \/ \E i \in Indexes : CallPopIndex(i) /\ UNCHANGED Observers
  \/ CallCompact /\ UNCHANGED Observers
  \/ CallReset /\ UNCHANGED Observers

SpecSingles == Init /\ [][NextSingles]_vars

----------------------------------------------------------------------------
(* SpecCore: the fuzz test's differential run.  Every call goes to the     *)
(* ring and to the reference queue alike.                                  *)

History == <<pushed, popped, Elsewhere>>

CorePushBack(e) ==
  LET ref == FakePushBack(fake, e) IN
  /\ CallPushBack(e)
  /\ fake' = ref.f
  /\ fret' = Ret("PushBack", e, <<>>, zero, ref.ok, 0, <<>>)
  /\ UNCHANGED History

CorePopFront ==
  LET ref == FakePopFront(fake) IN
  /\ CallPopFront
  /\ fake' = ref.f
  /\ fret' = Ret("PopFront", 0, <<>>, ref.val, ref.ok, 0, <<>>)
  /\ UNCHANGED History

CorePopIndex(i) ==
  LET ref == FakePopIndex(fake, i) IN
  /\ CallPopIndex(i)
  /\ fake' = ref.f
  /\ fret' = Ret("PopIndex", i, <<>>, ref.val, ref.ok, 0, <<>>)
  /\ UNCHANGED History

CorePeekIndex(i) ==
  LET ref == FakePeekIndex(fake, i) IN
  /\ CallPeekIndex(i)
  /\ fake' = ref.f
  /\ fret' = Ret("PeekIndex", i, <<>>, ref.val, ref.ok, 0, <<>>)
  /\ UNCHANGED History

CoreCopy(m) ==
  LET ref == FakeCopy(fake, Buffer(m)) IN
  /\ CallCopy(m)
  /\ fake' = ref.f
  /\ fret' = Ret("Copy", m, <<>>, zero, TRUE, ref.n, ref.out)
  /\ UNCHANGED History

NextCore ==
  \/ \E e \in Vals : CorePushBack(e)
  \/ CorePopFront
  \/ \E i \in Indexes : CorePopIndex(i)
  \/ \E i \in Indexes : CorePeekIndex(i)
  \/ \E m \in 0..(MaxCap + 1) : CoreCopy(m)

SpecCore == Init /\ [][NextCore]_vars

----------------------------------------------------------------------------
(* SpecFifo: PushBack and PopFront only, with the values that went in and  *)
(* came out recorded.                                                      *)

FifoPushBack(e) ==
  /\ Len(pushed) < MaxPushes
  /\ CallPushBack(e)
  /\ pushed' = IF ret'.ok THEN Append(pushed, e) ELSE pushed
  /\ UNCHANGED <<popped, fake, fret, Elsewhere>>

FifoPopFront ==
  /\ CallPopFront
  /\ popped' = IF ret'.ok THEN Append(popped, ret'.val) ELSE popped
  /\ UNCHANGED <<pushed, fake, fret, Elsewhere>>

NextFifo ==
  \/ \E e \in Vals : FifoPushBack(e)
  \/ FifoPopFront

SpecFifo == Init /\ [][NextFifo]_vars

----------------------------------------------------------------------------
(* SpecChannel: publishers, closers and the three kinds of subscriber on   *)
(* one Channel.  Publish, Close and head run under the channel's mutex, so *)
(* each is one step; a subscriber takes one step per turn of its loop.     *)

\* The ring and its observers, idle.
Ringside == <<ring, st, ret, fake, fret, pushed, popped>>

OffChannel ==
  <<Ringside, queue, consumers, enqueued, taken, future, calls, Latecomers>>

\* The start of the specifications that do not use the ring.
InitIdle ==
  /\ ring = NewRing(0)
  /\ st = "ok"
  /\ ret = Ret("NewRing", 0, <<>>, zero, TRUE, 0, <<>>)
  /\ fake = NewFake(0)
  /\ fret = Ret("NewRing", 0, <<>>, zero, TRUE, 0, <<>>)
  /\ pushed = <<>>
  /\ popped = <<>>
  /\ InitElsewhere

CallPublish ==
  /\ published < MaxPublish
  /\ published' = published + 1
  /\ channel' = Publish(channel, published + 1)
  /\ UNCHANGED <<subs, OffChannel>>

CallClose ==
  /\ channel' = Close(channel)
  /\ UNCHANGED <<subs, published, OffChannel>>

\* Subscribe, Receive, or the first statement of Watch: next := c.head().
CallSubscribe(s) ==
  LET h == head(channel) IN
  /\ subs[s].pc = "new"
  /\ channel' = h.c
  /\ subs' = [subs EXCEPT ![s] =
                [@ EXCEPT !.pc = "run", !.next = h.next,
                          !.since = published]]
  /\ UNCHANGED <<published, OffChannel>>

\* Subscription.Cancel, or the cancellation of Watch's context (which may
\* come before Watch is called), any number of times.  Receive has nothing
\* to cancel.
Cancel(s) ==
  /\ \/ Kind[s] = "Watch"
     \/ Kind[s] = "Subscribe" /\ subs[s].pc # "new"
  /\ subs[s].st = "ok"
  /\ subs' = [subs EXCEPT ![s] = CloseStop(@)]
  /\ UNCHANGED <<channel, published, OffChannel>>

\* One turn of the loop in Subscription.loop, Watch or Receive: the select
\* takes any ready case.  fn belongs to the caller: Watch's may return an
\* error, and the body of a range over Receive may break.
loop(s) ==
  LET me == subs[s]
      \* Subscription.loop leaves through "defer close(s.done)".
      Ends(why) == [me EXCEPT !.pc = "done", !.result = why,
                              !.done = Kind[s] = "Subscribe"]
  IN
  /\ me.pc = "run"
  /\ \/ /\ me.stop
        /\ subs' = [subs EXCEPT ![s] =
                      Ends(IF Kind[s] = "Watch" THEN "ctx" ELSE "stop")]
     \/ /\ FinalClosed(channel, me.next)
        /\ IF NodeClosed(channel, me.next)
           THEN subs' = [subs EXCEPT ![s] = Ends("closed")]
           ELSE \E goesOn \in
                    (IF Kind[s] = "Subscribe" THEN {TRUE} ELSE BOOLEAN) :
                  LET fed == [me EXCEPT
                                !.got = Append(@, channel.log[me.next])]
                  IN subs' = [subs EXCEPT ![s] =
                       IF goesOn
                       THEN [fed EXCEPT !.next = @ + 1]
                       ELSE [fed EXCEPT
                               !.pc = "done",
                               !.result = IF Kind[s] = "Watch"
                                          THEN "err" ELSE "break"]]
  /\ UNCHANGED <<channel, published, OffChannel>>

NextChannel ==
  \/ CallPublish
  \/ CallClose
  \/ \E s \in Subs : CallSubscribe(s)
  \/ \E s \in Subs : Cancel(s)
  \/ \E s \in Subs : loop(s)

SpecChannel == InitIdle /\ [][NextChannel]_vars

\* A goroutine that can run does run: a subscriber whose select has a ready
\* case takes its turn.
SpecChannelLive == SpecChannel /\ \A s \in Subs : WF_vars(loop(s))

----------------------------------------------------------------------------
(* SpecQueue: producers, Clear callers and the consumers of one Queue.     *)
(* Enqueue, Dequeue and Clear run under the queue's mutex, one step each.  *)
(* Wait takes two: it reads the signal under the mutex, then selects on it *)
(* and on its context with the mutex released.                             *)

OffQueue ==
  <<Ringside, channel, subs, published, future, calls, Latecomers>>

CallEnqueue ==
  LET item == Len(enqueued) + 1 IN
  /\ queue.st = "ok"
  /\ Len(enqueued) < MaxEnqueue
  /\ queue' = Enqueue(queue, item)
  /\ enqueued' = Append(enqueued, item)
  /\ consumers' = [p \in Consumers |->
                     IF consumers[p].pc = "select"
                     THEN [consumers[p] EXCEPT !.woken = TRUE]
                     ELSE consumers[p]]
  /\ UNCHANGED <<taken, OffQueue>>

CallDequeue(p) ==
  LET res == Dequeue(queue) IN
  /\ queue.st = "ok"
  /\ QKind[p] = "Dequeue"
  /\ queue' = res.q
  /\ taken' = IF res.ok THEN Append(taken, <<res.item, p>>) ELSE taken
  /\ UNCHANGED <<consumers, enqueued, OffQueue>>

CallClear ==
  /\ queue.st = "ok"
  /\ queue' = Clear(queue)
  /\ UNCHANGED <<consumers, enqueued, taken, OffQueue>>

\* The context handed to Wait or All is cancelled.
CancelContext(p) ==
  /\ QKind[p] \in {"Wait", "All"}
  /\ ~consumers[p].cancelled
  /\ consumers' = [consumers EXCEPT ![p].cancelled = TRUE]
  /\ UNCHANGED <<queue, enqueued, taken, OffQueue>>

\* Wait, first half (also the Wait at the top of All's loop):
\* available := q.available, under the mutex.
WaitRead(p) ==
  /\ queue.st = "ok"
  /\ QKind[p] \in {"Wait", "All"}
  /\ consumers[p].pc = "idle"
  /\ consumers' = [consumers EXCEPT ![p] =
                     [@ EXCEPT !.pc = "select", !.ch = queue.available,
                               !.result = "",
                               !.woken = Len(queue.items) > 0]]
  /\ UNCHANGED <<queue, enqueued, taken, OffQueue>>

\* Wait, second half: the select takes any ready case.  An iterator ends
\* on an error and goes on to Dequeue otherwise.
WaitSelect(p) ==
  LET me == consumers[p] IN
  /\ me.pc = "select"
  /\ \/ /\ me.cancelled
        /\ consumers' = [consumers EXCEPT ![p] =
             [me EXCEPT !.pc = IF QKind[p] = "All" THEN "done" ELSE "idle",
                        !.result = "ctx"]]
     \/ /\ me.ch \in queue.closed
        /\ consumers' = [consumers EXCEPT ![p] =
             [me EXCEPT !.pc = IF QKind[p] = "All" THEN "dequeue"
                               ELSE "idle",
                        !.result = "nil"]]
  /\ UNCHANGED <<queue, enqueued, taken, OffQueue>>

\* The rest of a turn of All's loop: Dequeue, then yield unless another
\* consumer took the item first.  The loop body may break.
IterDequeue(p) ==
  LET me == consumers[p]
      res == Dequeue(queue)
  IN
  /\ queue.st = "ok"
  /\ me.pc = "dequeue"
  /\ queue' = res.q
  /\ IF ~res.ok
     THEN /\ consumers' = [consumers EXCEPT ![p].pc = "idle"]
          /\ taken' = taken
     ELSE /\ taken' = Append(taken, <<res.item, p>>)
          /\ \E goesOn \in BOOLEAN :
               consumers' = [consumers EXCEPT ![p] =
                 [me EXCEPT !.yielded = Append(@, res.item),
                            !.pc = IF goesOn THEN "idle" ELSE "done",
                            !.result = IF goesOn THEN @ ELSE "break"]]
  /\ UNCHANGED <<enqueued, OffQueue>>

NextQueue ==
  \/ CallEnqueue
  \/ \E p \in Consumers : CallDequeue(p)
  \/ CallClear
  \/ \E p \in Consumers : CancelContext(p)
  \/ \E p \in Consumers : WaitRead(p)
  \/ \E p \in Consumers : WaitSelect(p)
  \/ \E p \in Consumers : IterDequeue(p)

SpecQueue == InitIdle /\ [][NextQueue]_vars

\* A goroutine blocked in Wait's select proceeds once a case is ready.
SpecQueueLive == SpecQueue /\ \A p \in Consumers : WF_vars(WaitSelect(p))

----------------------------------------------------------------------------
(* SpecFuture: concurrent Set and Get calls on one Future.  The function   *)
(* Set hands to Once.Do takes a step per statement; Get is one select.     *)

OffFuture ==
  <<Ringside, channel, subs, published, queue, consumers, enqueued, taken,
    Latecomers>>

\* Set enters f.set.Do: it blocks while another call runs the function,
\* then either runs it or returns false.
CallSet(p, value) ==
  /\ p \in Setters
  /\ future.st = "ok"
  /\ calls[p].pc = "idle"
  /\ future.once # "running"
  /\ IF Do(future)
     THEN /\ future' = [future EXCEPT !.once = "running"]
          /\ calls' = [calls EXCEPT ![p] =
                         [@ EXCEPT !.pc = "store", !.arg = value]]
     ELSE /\ future' = future
          /\ calls' = [calls EXCEPT ![p] =
                         [@ EXCEPT !.pc = "returned", !.arg = value,
                                   !.ok = FALSE]]
  /\ UNCHANGED OffFuture

\* f.value = value
SetStore(p) ==
  /\ calls[p].pc = "store"
  /\ future' = [future EXCEPT !.value = calls[p].arg]
  /\ calls' = [calls EXCEPT ![p].pc = "close"]
  /\ UNCHANGED OffFuture

\* close(f.done); closing a closed channel panics.
SetClose(p) ==
  /\ calls[p].pc = "close"
  /\ future' = [future EXCEPT !.done = TRUE,
                              !.st = IF future.done THEN "panic" ELSE @]
  /\ calls' = [calls EXCEPT ![p].pc = IF future.done THEN "returned"
                                      ELSE "unlock"]
  /\ UNCHANGED OffFuture

\* The function returns: the Once is done and lets the other callers go.
SetUnlock(p) ==
  /\ calls[p].pc = "unlock"
  /\ future' = [future EXCEPT !.once = "done"]
  /\ calls' = [calls EXCEPT ![p].pc = "return"]
  /\ UNCHANGED OffFuture

\* return wasSet
SetReturn(p) ==
  /\ calls[p].pc = "return"
  /\ calls' = [calls EXCEPT ![p] = [@ EXCEPT !.pc = "returned", !.ok = TRUE]]
  /\ UNCHANGED <<future, OffFuture>>

CallGet(p) ==
  /\ p \in Getters
  /\ calls[p].pc = "idle"
  /\ calls' = [calls EXCEPT ![p] =
                 [@ EXCEPT !.pc = "select", !.early = ~future.done]]
  /\ UNCHANGED <<future, OffFuture>>

\* The context handed to Get is cancelled, before or during the call.
CancelGet(p) ==
  /\ p \in Getters
  /\ calls[p].pc # "returned"
  /\ ~calls[p].cancelled
  /\ calls' = [calls EXCEPT ![p].cancelled = TRUE]
  /\ UNCHANGED <<future, OffFuture>>

GetSelect(p) ==
  /\ calls[p].pc = "select"
  /\ \E res \in Get(future, calls[p].cancelled,
                    {calls[q].arg : q \in {x \in Setters :
                                             calls[x].pc = "store"}}) :
       calls' = [calls EXCEPT ![p] =
                   [@ EXCEPT !.pc = "returned", !.val = res.val,
                             !.err = res.err]]
  /\ UNCHANGED <<future, OffFuture>>

NextFuture ==
  \/ \E p \in Setters : \E value \in Vals : CallSet(p, value)
  \/ \E p \in Setters : SetStore(p)
  \/ \E p \in Setters : SetClose(p)
  \/ \E p \in Setters : SetUnlock(p)
  \/ \E p \in Setters : SetReturn(p)
  \/ \E p \in Getters : CallGet(p)
  \/ \E p \in Getters : CancelGet(p)
  \/ \E p \in Getters : GetSelect(p)

SpecFuture == InitIdle /\ [][NextFuture]_vars

\* A goroutine blocked in Get's select proceeds once a case is ready.
SpecFutureLive == SpecFuture /\ \A p \in Getters : WF_vars(GetSelect(p))

----------------------------------------------------------------------------
(* SpecWatchFutures: one WatchFutures iterator over up to MaxFutures       *)
(* futures that are set, in any order, before or while it runs.            *)

OffWatchFutures ==
  <<Ringside, channel, subs, published, queue, consumers, enqueued, taken,
    future, calls, notifiers, listeners, anyone>>

\* The caller creates the futures it will watch.
MakeFutures(n) ==
  /\ watcher.pc = "none"
  /\ futures' = [j \in 1..n |-> NewFuture]
  /\ watcher' = [watcher EXCEPT !.pc = "made"]
  /\ UNCHANGED <<setOrder, OffWatchFutures>>

\* Set on the i-th future; only the first Set of a future takes effect.
SetFuture(i, value) ==
  /\ watcher.pc # "none"
  /\ i \in 1..Len(futures)
  /\ futures' = [futures EXCEPT ![i] = SetNow(@, value)]
  /\ setOrder' = IF Do(futures[i]) THEN Append(setOrder, i) ELSE setOrder
  /\ UNCHANGED <<watcher, OffWatchFutures>>

\* WatchFutures builds its select cases; ranging starts the loop.
CallWatchFutures ==
  /\ watcher.pc = "made"
  /\ watcher' = [watcher EXCEPT !.pc = "select",
                                !.remaining = Len(futures)]
  /\ UNCHANGED <<futures, setOrder, OffWatchFutures>>

CancelWatchFutures ==
  /\ watcher.pc \in {"made", "select", "get"}
  /\ ~watcher.cancelled
  /\ watcher' = [watcher EXCEPT !.cancelled = TRUE]
  /\ UNCHANGED <<futures, setOrder, OffWatchFutures>>

\* reflect.Select takes any ready case: a future whose done channel is
\* closed and whose case was not set to nil, or the context.
WatchSelect ==
  /\ watcher.pc = "select"
  /\ \/ /\ watcher.cancelled
        /\ watcher' = [watcher EXCEPT !.pc = "done", !.result = "ctx"]
     \/ \E i \in 1..Len(futures) :
          /\ futures[i].done
          /\ (i - 1) \notin watcher.spent
          /\ watcher' = [watcher EXCEPT !.pc = "get", !.chosen = i - 1]
  /\ UNCHANGED <<futures, setOrder, OffWatchFutures>>

\* The rest of the loop body: Get, yield, set the case to nil, count down.
WatchGet ==
  LET f == futures[watcher.chosen + 1] IN
  /\ watcher.pc = "get"
  /\ \E res \in Get(f, watcher.cancelled, {}) :
       IF res.err # "nil"
       THEN watcher' = [watcher EXCEPT !.pc = "done", !.result = "ctx"]
       ELSE \E goesOn \in BOOLEAN :
              LET fed == [watcher EXCEPT
                            !.yielded = Append(@, <<watcher.chosen, res.val>>)]
              IN watcher' =
                   IF ~goesOn
                   THEN [fed EXCEPT !.pc = "done", !.result = "break"]
                   ELSE IF watcher.remaining - 1 = 0
                   THEN [fed EXCEPT !.pc = "done", !.result = "all",
                                    !.spent = @ \cup {watcher.chosen},
                                    !.remaining = @ - 1]
                   ELSE [fed EXCEPT !.pc = "select",
                                    !.spent = @ \cup {watcher.chosen},
                                    !.remaining = @ - 1]
  /\ UNCHANGED <<futures, setOrder, OffWatchFutures>>

NextWatchFutures ==
  \/ \E n \in 0..MaxFutures : MakeFutures(n)
  \/ \E i \in 1..MaxFutures : \E value \in Vals : SetFuture(i, value)
  \/ CallWatchFutures
  \/ CancelWatchFutures
  \/ WatchSelect
  \/ WatchGet

SpecWatchFutures == InitIdle /\ [][NextWatchFutures]_vars

----------------------------------------------------------------------------
(* SpecNotifier: Store, Update, Wait and Watch on the first notifier.      *)
(* Store and Load run under the mutex, one step each.  Update takes two,   *)
(* holding the mutex in between: it calls the function, then stores.       *)

OffNotifier ==
  <<Ringside, channel, subs, published, queue, consumers, enqueued, taken,
    future, calls, futures, watcher, setOrder>>

CallStore(i, value) ==
  /\ ~Locked(notifiers[i])
  /\ Len(notifiers[i].held) <= MaxStore
  /\ notifiers' = [notifiers EXCEPT ![i] = Store(@, value, "Store")]
  /\ UNCHANGED <<listeners, anyone, OffNotifier>>

\* Update, first half: n.mu.Lock(); fn(n.value).
UpdateLock(p) ==
  /\ NKind[p] = "Update"
  /\ listeners[p].pc = "idle"
  /\ ~Locked(notifiers[1])
  /\ Len(notifiers[1].held) <= MaxStore
  /\ notifiers' = [notifiers EXCEPT ![1].mu = p]
  /\ listeners' = [listeners EXCEPT ![p] =
                     [@ EXCEPT !.pc = "locked",
                               !.tmp = Bump(notifiers[1].value)]]
  /\ UNCHANGED <<anyone, OffNotifier>>

\* Update, second half: store, close, unlock, return n.value.
UpdateStore(p) ==
  LET n1 == Store(notifiers[1], listeners[p].tmp, "Update") IN
  /\ listeners[p].pc = "locked"
  /\ notifiers' = [notifiers EXCEPT ![1] = [n1 EXCEPT !.mu = ""]]
  /\ listeners' = [listeners EXCEPT ![p] =
                     [@ EXCEPT !.pc = "returned", !.ret = n1.value,
                               !.at = Len(n1.held)]]
  /\ UNCHANGED <<anyone, OffNotifier>>

\* What a listener does with the result res of a Load: Wait returns if the
\* value is the wanted one and selects otherwise; Watch yields it next.
Loaded(p, res) ==
  LET me == [listeners[p] EXCEPT !.v = res.v, !.ch = res.ch,
                                 !.at = Len(res.n.held)]
  IN IF NKind[p] = "Watch"
     THEN [me EXCEPT !.pc = "yield"]
     ELSE IF Wanted(res.v)
     THEN [me EXCEPT !.pc = "returned", !.ret = res.v, !.err = "nil"]
     ELSE [me EXCEPT !.pc = "select"]

\* Wait or Watch is called: the first Load.
CallListen(p) ==
  LET res == Load(notifiers[1]) IN
  /\ NKind[p] \in {"Wait", "Watch"}
  /\ listeners[p].pc = "idle"
  /\ ~Locked(notifiers[1])
  /\ notifiers' = [notifiers EXCEPT ![1] = res.n]
  /\ listeners' = [listeners EXCEPT ![p] = Loaded(p, res)]
  /\ UNCHANGED <<anyone, OffNotifier>>

CancelListen(p) ==
  /\ NKind[p] \in {"Wait", "Watch"}
  /\ listeners[p].pc # "returned"
  /\ ~listeners[p].cancelled
  /\ listeners' = [listeners EXCEPT ![p].cancelled = TRUE]
  /\ UNCHANGED <<notifiers, anyone, OffNotifier>>

\* The loop body of a range over Watch is handed v; it may break.
WatchYield(p) ==
  LET me == listeners[p] IN
  /\ me.pc = "yield"
  /\ \E goesOn \in BOOLEAN :
       listeners' = [listeners EXCEPT ![p] =
         [me EXCEPT !.yielded = Append(@, me.v),
                    !.seen = Append(@, me.at),
                    !.pc = IF goesOn THEN "select" ELSE "returned",
                    !.err = IF goesOn THEN @ ELSE "break"]]
  /\ UNCHANGED <<notifiers, anyone, OffNotifier>>

\* The select of Wait and Watch with the Load that follows its channel
\* case; the select takes any ready case.
ListenSelect(p) ==
  LET me  == listeners[p]
      res == Load(notifiers[1])
  IN
  /\ me.pc = "select"
  /\ \/ /\ me.cancelled
        /\ listeners' = [listeners EXCEPT ![p] =
                           [me EXCEPT !.pc = "returned", !.ret = zero,
                                      !.err = "ctx"]]
        /\ UNCHANGED notifiers
     \/ /\ me.ch \in notifiers[1].closed
        /\ ~Locked(notifiers[1])
        /\ notifiers' = [notifiers EXCEPT ![1] = res.n]
        /\ listeners' = [listeners EXCEPT ![p] = Loaded(p, res)]
  /\ UNCHANGED <<anyone, OffNotifier>>

NextNotifier ==
  \/ \E value \in Vals : CallStore(1, value)
  \/ \E p \in Listeners : UpdateLock(p)
  \/ \E p \in Listeners : UpdateStore(p)
  \/ \E p \in Listeners : CallListen(p)
  \/ \E p \in Listeners : CancelListen(p)
  \/ \E p \in Listeners : WatchYield(p)
  \/ \E p \in Listeners : ListenSelect(p)

SpecNotifier == InitIdle /\ [][NextNotifier]_vars

\* A goroutine that can run does run: Update's function returns, a select
\* with a ready case proceeds, the loop body of a range comes back.
SpecNotifierLive ==
  /\ SpecNotifier
  /\ \A p \in Listeners :
       /\ WF_vars(UpdateStore(p))
       /\ WF_vars(WatchYield(p))
       /\ WF_vars(ListenSelect(p))

----------------------------------------------------------------------------
(* SpecWaitAny: one WaitAny call over a list of notifiers that are stored  *)
(* to while it runs.                                                       *)

\* The lists handed to WaitAny: empty, one notifier, two, one twice.
AnyLists == {<<>>, <<1>>, <<1, 2>>, <<2, 2>>}

\* What WaitAny does with the result res of the Load of its k-th object
\* (1-based): return if the value is the wanted one, else keep the channel
\* as the case's channel.
AnyLoaded(k, res) ==
  IF Wanted(res.v)
  THEN [anyone EXCEPT !.pc = "returned", !.val = res.v, !.idx = k - 1,
                      !.from = Len(res.n.held)]
  ELSE [anyone EXCEPT
          !.chs = [j \in 1..(IF k > Len(@) THEN k ELSE Len(@)) |->
                     IF j = k THEN res.ch ELSE @[j]],
          !.pc = IF k >= Len(anyone.objs) THEN "select" ELSE @]

CallWaitAny(objs) ==
  /\ anyone.pc = "idle"
  /\ anyone' = [anyone EXCEPT !.pc = IF objs = <<>> THEN "select" ELSE "load",
                              !.objs = objs, !.pre = anyone.cancelled]
  /\ UNCHANGED <<notifiers, listeners, OffNotifier>>

CancelWaitAny ==
  /\ anyone.pc # "returned"
  /\ ~anyone.cancelled
  /\ anyone' = [anyone EXCEPT !.cancelled = TRUE]
  /\ UNCHANGED <<notifiers, listeners, OffNotifier>>

\* One turn of the first loop: load the next object, test, add its case.
AnyLoad ==
  LET k   == Len(anyone.chs) + 1
      i   == anyone.objs[k]
      res == Load(notifiers[i])
  IN
  /\ anyone.pc = "load"
  /\ ~Locked(notifiers[i])
  /\ notifiers' = [notifiers EXCEPT ![i] = res.n]
  /\ anyone' = AnyLoaded(k, res)
  /\ UNCHANGED <<listeners, OffNotifier>>

\* One turn of the second loop: reflect.Select takes any ready case; on a
\* notifier's case the notifier is loaded again.
AnySelect ==
  /\ anyone.pc = "select"
  /\ \/ /\ anyone.cancelled
        /\ anyone' = [anyone EXCEPT !.pc = "returned", !.val = zero,
                                    !.idx = 0 - 1]
        /\ UNCHANGED notifiers
     \/ \E k \in 1..Len(anyone.objs) :
          LET i   == anyone.objs[k]
              res == Load(notifiers[i])
          IN
          /\ anyone.chs[k] \in notifiers[i].closed
          /\ ~Locked(notifiers[i])
          /\ notifiers' = [notifiers EXCEPT ![i] = res.n]
          /\ anyone' = AnyLoaded(k, res)
  /\ UNCHANGED <<listeners, OffNotifier>>

NextWaitAny ==
  \/ \E i \in Notifiers : \E value \in Vals : CallStore(i, value)
  \/ \E objs \in AnyLists : CallWaitAny(objs)
  \/ CancelWaitAny
  \/ AnyLoad
  \/ AnySelect

SpecWaitAny == InitIdle /\ [][NextWaitAny]_vars

----------------------------------------------------------------------------
(* Properties                                                              *)

\* Logical sequence s without its element at 0-based index i.
Without(s, i) == SubSeq(s, 1, i) \o SubSeq(s, i + 2, Len(s))

\* C1: after any sequence of operations, 0 <= Len() <= Cap().
C1_LenWithinCap ==
  /\ 0 <= RingLen(ring)
  /\ RingLen(ring) <= RingCap(ring)

\* C2: after every call of the differential run the ring has returned the
\* same value, ok flag, count and Copy snapshot as the reference queue, and
\* a Copy of the whole ring equals a Copy of the whole reference queue.
C2_Differential ==
  /\ ret.val = fret.val
  /\ ret.ok = fret.ok
  /\ ret.n = fret.n
  /\ ret.out = fret.out
  /\ Copy(ring, Buffer(RingCap(ring))).n = FakeCopy(fake, Buffer(fake.cap)).n
  /\ Copy(ring, Buffer(RingCap(ring))).out = FakeCopy(fake, Buffer(fake.cap)).out

\* C2 witness: a PopIndex that removed an element of the wrap region while
\* the front region sat at a non-zero offset.
C2_PopIndexInWrap ==
  /\ ret.op = "PopIndex"
  /\ ret.ok
  /\ ret.arg >= ring.right.len
  /\ ring.right.len > 0
  /\ ring.right.off > 0
  /\ ring.left.len > 0

\* C3: the values PopFront has returned, followed by the values still in
\* the ring, are exactly the values PushBack has accepted, in push order.
C3_Fifo == pushed = popped \o Logical(ring)

\* C3 witness: more values popped than the ring can hold, with the ring
\* wrapped again.
C3_PoppedPastWrap ==
  /\ Len(popped) > RingCap(ring)
  /\ RingCap(ring) >= 2
  /\ ring.left.len > 0

\* C4: PushBatch(items) returns k = min(len(items), Cap() - Len()), Len()
\* grows by k and the logical sequence gains the first k items.
C4_PushBatch ==
  [][ret'.op = "PushBatch" =>
       LET k == Min(Len(ret'.items), RingCap(ring) - RingLen(ring)) IN
       /\ ret'.n = k
       /\ RingLen(ring') = RingLen(ring) + k
       /\ Logical(ring') = Logical(ring) \o SubSeq(ret'.items, 1, k)]_vars

\* C5: the slice Fill hands to its callback contains no occupied slot, and
\* the elements that were in the ring are unchanged and in the same order
\* after Fill returns.
C5_FillOffersFreeSlots ==
  [][(ret'.op = "Fill" /\ ret'.ok) =>
       /\ Slots(Slice(ret'.out[1], ret'.out[2])) \cap Occupied(ring) = {}
       /\ SubSeq(Logical(ring'), 1, RingLen(ring)) = Logical(ring)]_vars

C7_PopIndex ==
  [][ret'.op = "PopIndex" =>
       LET i == ret'.arg
           L == Logical(ring)
       IN /\ (i < 0 \/ i >= RingLen(ring)) =>
               /\ ret'.val = zero
               /\ ~ret'.ok
               /\ Logical(ring') = L
          /\ (0 <= i /\ i < RingLen(ring)) =>
               /\ ret'.ok
               /\ ret'.val = L[i + 1]
               /\ RingLen(ring') = RingLen(ring) - 1
               /\ Logical(ring') = Without(L, i)
          /\ i = 0 =>
               /\ ring' = PopFront(ring).r
               /\ ret'.val = PopFront(ring).val
               /\ ret'.ok = PopFront(ring).ok]_vars

\* C8: Copy, PeekFront, PeekIndex, Scan and All leave Len(), Cap() and the
\* logical sequence unchanged.
C8_ReadsDoNotMutate ==
  [][ret'.op \in {"Copy", "PeekFront", "PeekIndex", "Scan", "All"} =>
       /\ RingLen(ring') = RingLen(ring)
       /\ RingCap(ring') = RingCap(ring)
       /\ Logical(ring') = Logical(ring)]_vars

\* C8 witness: a PeekIndex that read an element of the wrap region of a
\* ring whose regions do not overlap.
C8_PeekInWrap ==
  /\ ret.op = "PeekIndex"
  /\ ret.ok
  /\ ret.arg >= ring.right.len
  /\ ret.val # zero
  /\ ring.left.len > 0
  /\ ring.left.len <= ring.right.off

\* C9: a count n the callback reports with 1 <= n <= len(offered slice) is
\* returned by Fill, Len() grows by n and the elements the callback wrote
\* are the logically last ones; a count <= 0 or beyond the offered slice
\* makes Fill return 0 with Len() and the logical sequence unchanged.
C9_FillCount ==
  [][(ret'.op = "Fill" /\ ret'.ok) =>
       LET n    == ret'.arg
           size == ret'.out[2]
           old  == RingLen(ring)
       IN /\ (1 <= n /\ n <= size) =>
               /\ ret'.n = n
               /\ RingLen(ring') = old + n
               /\ \A j \in 1..Min(n, Len(ret'.items)) :
                    Logical(ring')[old + j] = ret'.items[j]
          /\ (n <= 0 \/ n > size) =>
               /\ ret'.n = 0
               /\ RingLen(ring') = old
               /\ Logical(ring') = Logical(ring)]_vars

\* C10: no operation panics, whatever the state and the arguments.
C10_NoPanic == st # "panic"

\* The storage slot (0-based) of the element at logical index j.
SlotOf(r, j) ==
  IF j < r.right.len THEN r.right.off + j ELSE r.left.off + (j - r.right.len)

\* C11: Limit(n), n >= 0, returns the ring itself when Len() <= n; otherwise
\* a view of Len() = n in which Copy, PeekIndex and repeated PopFront see
\* exactly the first n elements of the source; the source is unchanged.
C11_Limit ==
  [][(ret'.op = "Limit" /\ ret'.arg >= 0) =>
       LET n == ret'.arg
           v == ret'.view
           L == Logical(ring)
       IN /\ RingLen(ring) <= n => v = ring
          /\ RingLen(ring) > n =>
               /\ RingLen(v) = n
               /\ Copy(v, Buffer(n + 1)).n = n
               /\ SubSeq(Copy(v, Buffer(n + 1)).out, 1, n) = SubSeq(L, 1, n)
               /\ \A i \in 0..(n - 1) :
                    /\ PeekIndex(v, i).ok
                    /\ PeekIndex(v, i).val = L[i + 1]
               /\ ~PeekIndex(v, n).ok
               /\ Drain(v) = SubSeq(L, 1, n)
          /\ RingLen(ring') = RingLen(ring)
          /\ Logical(ring') = L]_vars

\* C12: src.WriteTo(dst) returns k = min(src.Len(), dst.Cap() - dst.Len()),
\* dst gains the first k elements of src in order and src is unchanged.
C12_WriteTo ==
  [][ret'.op = "WriteTo" =>
       LET src == ret'.src
           k   == Min(RingLen(src), RingCap(ring) - RingLen(ring))
       IN /\ ret'.n = k
          /\ RingLen(ring') = RingLen(ring) + k
          /\ Logical(ring') = Logical(ring) \o SubSeq(Logical(src), 1, k)
          /\ RingLen(ret'.srcAfter) = RingLen(src)
          /\ Logical(ret'.srcAfter) = Logical(src)]_vars

\* C13: Compact leaves Len(), Cap() and the logical sequence unchanged; the
\* element at logical index j is then at storage slot j, the wrap region is
\* empty, and a second Compact changes nothing.
C13_Compact ==
  [][ret'.op = "Compact" =>
       LET L == Logical(ring) IN
       /\ RingLen(ring') = RingLen(ring)
       /\ RingCap(ring') = RingCap(ring)
       /\ Logical(ring') = L
       /\ ring'.left.len = 0
       /\ ring'.right = Slice(0, RingLen(ring))
       /\ \A j \in 1..Min(Len(L), RingCap(ring)) : ring'.elements[j] = L[j]
       /\ Compact(ring').r = ring']_vars

\* C14: Write(in) with in non-empty commits the k = min(len(in), Cap() -
\* Len()) leading elements and returns k: no error when k = len(in), a short
\* write when 0 < k < len(in), and count 0, "no space" and an unchanged ring
\* when the ring was full.
C14_Write ==
  [][(ret'.op = "Write" /\ Len(ret'.items) > 0) =>
       LET in == ret'.items
           k  == Min(Len(in), RingCap(ring) - RingLen(ring))
       IN /\ ret'.n = k
          /\ RingLen(ring') = RingLen(ring) + k
          /\ Logical(ring') = Logical(ring) \o SubSeq(in, 1, k)
          /\ k = Len(in) => ret'.err = "nil"
          /\ (0 < k /\ k < Len(in)) => ret'.err = "short write"
          /\ RingLen(ring) = RingCap(ring) =>
               /\ ret'.n = 0
               /\ ret'.err = "no space"
               /\ ring' = ring]_vars

\* C15: Read(out) on an empty ring returns (0, EOF) and changes nothing; on
\* a non-empty ring it returns (k, nil), k = min(len(out), Len()), the first
\* k elements are in out[0..k), out[k..] is untouched and exactly those k
\* elements are gone from the front of the ring.
C15_Read ==
  [][ret'.op = "Read" =>
       LET L == Logical(ring)
           m == ret'.arg
           k == Min(m, RingLen(ring))
       IN /\ RingLen(ring) = 0 =>
               /\ ret'.n = 0
               /\ ret'.err = "EOF"
               /\ ring' = ring
               /\ ret'.out = Buffer(m)
          /\ RingLen(ring) > 0 =>
               /\ ret'.n = k
               /\ ret'.err = "nil"
               /\ ret'.out = SubSeq(L, 1, k) \o [j \in 1..(m - k) |-> Untouched]
               /\ Logical(ring') = SubSeq(L, k + 1, Len(L))]_vars

\* C16: Resize(n) with n < Len() returns an error and changes nothing; with
\* n >= Len() it returns no error, keeps Len() and the logical sequence,
\* sets Cap() = n, and exactly n - Len() further PushBack calls succeed.
C16_Resize ==
  [][ret'.op = "Resize" =>
       LET n == ret'.arg IN
       /\ n < RingLen(ring) =>
            /\ ret'.err = "error"
            /\ ring' = ring
       /\ n >= RingLen(ring) =>
            /\ ret'.err = "nil"
            /\ RingLen(ring') = RingLen(ring)
            /\ Logical(ring') = Logical(ring)
            /\ RingCap(ring') = n
            /\ Accepted(ring', [j \in 1..(n + 1) |-> 1]) = n - RingLen(ring)]_vars

\* C17: Drop(n) with n >= Len() leaves Len() = 0; with n < Len() it removes
\* exactly the first n elements and the others keep their order.
C17_Drop ==
  [][ret'.op = "Drop" =>
       LET n == ret'.arg
           L == Logical(ring)
       IN /\ n >= RingLen(ring) => RingLen(ring') = 0
          /\ n < RingLen(ring) =>
               /\ RingLen(ring') = RingLen(ring) - n
               /\ Logical(ring') = SubSeq(L, n + 1, Len(L))]_vars

\* C18: Skip(n) returns k = min(n, Len()) and removes the first k elements;
\* afterwards every slot that held a skipped element is zero, the slots of
\* the remaining elements keep their values and slots that were zero and
\* unused stay zero.
C18_Skip ==
  [][ret'.op = "Skip" =>
       LET L       == Logical(ring)
           k       == Min(ret'.arg, RingLen(ring))
           skipped == {SlotOf(ring, j) : j \in 0..(k - 1)}
           kept    == {SlotOf(ring, j) : j \in k..(RingLen(ring) - 1)}
       IN /\ ret'.n = k
          /\ Logical(ring') = SubSeq(L, k + 1, Len(L))
          /\ \A p \in skipped : ring'.elements[p + 1] = zero
          /\ \A p \in kept : ring'.elements[p + 1] = ring.elements[p + 1]
          /\ \A p \in 0..(RingCap(ring) - 1) :
               (p \notin Occupied(ring) /\ ring.elements[p + 1] = zero)
                 => ring'.elements[p + 1] = zero]_vars

\* C16 witness: a Resize that succeeded with room to spare on a ring holding
\* two different values.
C16_ResizedWithContents ==
  /\ ret.op = "Resize"
  /\ ret.err = "nil"
  /\ RingCap(ring) = ret.arg
  /\ RingLen(ring) >= 2
  /\ RingLen(ring) < RingCap(ring)
  /\ Logical(ring)[1] # Logical(ring)[2]

\* C19: Reset leaves Len() = 0, Cap() unchanged and every storage slot zero;
\* afterwards exactly Cap() PushBack calls succeed and PopFront returns their
\* values in order, as on a new ring.
C19_Reset ==
  [][ret'.op = "Reset" =>
       LET c    == RingCap(ring)
           vals == [j \in 1..(c + 1) |-> 1 + (j % 2)]
       IN /\ RingLen(ring') = 0
          /\ RingCap(ring') = c
          /\ \A p \in 1..c : ring'.elements[p] = zero
          /\ Accepted(ring', vals) = c
          /\ Drain(PushEach(ring', vals)) = SubSeq(vals, 1, c)]_vars

\* C19 witness: a Reset of a ring of the largest capacity.
C19_ResetDone ==
  /\ ret.op = "Reset"
  /\ RingCap(ring) = MaxCap
  /\ RingLen(ring) = 0

\* C20: Copy(out) returns min(len(out), Len()), writes that many leading
\* elements of the logical sequence at the start of out and leaves the rest
\* of out untouched.
C20_Copy ==
  [][ret'.op = "Copy" =>
       LET m == ret'.arg
           k == Min(m, RingLen(ring))
       IN /\ ret'.n = k
          /\ ret'.out = SubSeq(Logical(ring), 1, k)
                          \o [j \in 1..(m - k) |-> Untouched]]_vars

\* C20 witness: a Copy that took elements of both regions into a buffer
\* longer than the ring's contents.
C20_CopyAcrossWrap ==
  /\ ret.op = "Copy"
  /\ ring.left.len > 0
  /\ ring.right.len > 0
  /\ ring.right.off >= ring.left.len
  /\ ret.n = RingLen(ring)
  /\ ret.arg > ret.n

\* C21: Scan(p) returns the first element, in logical order, that satisfies
\* p, with its logical index (so that PeekIndex of that index returns the
\* element); without a match it returns the zero value and -1.
C21_Scan ==
  [][ret'.op = "Scan" =>
       LET L    == Logical(ring)
           hits == {j \in 0..(Len(L) - 1) : L[j + 1] = ret'.arg}
       IN IF hits = {}
          THEN /\ ret'.val = zero
               /\ ret'.n = 0 - 1
          ELSE /\ ret'.n \in hits
               /\ \A j \in hits : ret'.n <= j
               /\ ret'.val = L[ret'.n + 1]
               /\ PeekIndex(ring, ret'.n).ok
               /\ PeekIndex(ring, ret'.n).val = ret'.val]_vars

\* C21 witness: a Scan whose first match lies in the wrap region.
C21_FoundInWrap ==
  /\ ret.op = "Scan"
  /\ ring.right.len > 0
  /\ ret.n >= ring.right.len
  /\ ring.right.off >= ring.left.len

\* C22: a ring that holds an element has a non-empty front view, and
\* PopFront and PeekFront return ok = false exactly when Len() = 0.
C22_FrontNeverEmpty ==
  [][/\ RingLen(ring) > 0 => ring.right.len > 0
     /\ ret'.op \in {"PopFront", "PeekFront"} =>
          (ret'.ok = FALSE <=> RingLen(ring) = 0)]_vars

\* C22 witness: a PopFront that exhausted the front view and promoted a
\* non-empty wrap view.
C22_WrapPromoted ==
  /\ ret.op = "PopFront"
  /\ ret.ok
  /\ ring.right.off = 0
  /\ ring.right.len > 0
  /\ ring.left.len = 0

\* C23: PopIndex(i) returns what PeekIndex(i) returned just before it, and
\* PopFront() what PeekFront() returned.
C23_PeekIsPop ==
  [][/\ ret'.op = "PopIndex" =>
          /\ PeekIndex(ring, ret'.arg).val = ret'.val
          /\ PeekIndex(ring, ret'.arg).ok = ret'.ok
     /\ ret'.op = "PopFront" =>
          /\ PeekFront(ring).val = ret'.val
          /\ PeekFront(ring).ok = ret'.ok]_vars

\* C23 witness: a PopIndex that took a non-zero element out of the wrap
\* region.
C23_PoppedFromWrap ==
  /\ ret.op = "PopIndex"
  /\ ret.ok
  /\ ret.val # zero
  /\ ring.right.len > 0
  /\ ret.arg >= ring.right.len
  /\ ring.right.off > ring.left.len

\* The values subscriber s has been handed, as a set.
Got(s) == {subs[s].got[j] : j \in 1..Len(subs[s].got)}

\* Subscriber s is neither cancelled nor stopped by its own callback.
Listening(s) == ~subs[s].stop /\ subs[s].result \notin {"err", "break"}

\* C24: a subscriber is handed the values published since it subscribed
\* one by one in the order of the Publish calls, none twice and none
\* skipped, so all subscribers see the same order; and a value whose
\* Publish took effect after a subscription was set up is delivered to
\* that subscriber unless it is cancelled or stopped.
C24_Delivery ==
  /\ [](\A s \in Subs : \A j \in 1..Len(subs[s].got) :
          subs[s].got[j] = subs[s].since + j)
  /\ \A s \in Subs : \A v \in 1..MaxPublish :
       (/\ subs[s].pc # "new"
        /\ v > subs[s].since
        /\ \E k \in 1..Len(channel.log) : channel.log[k] = v)
         ~> (v \in Got(s) \/ ~Listening(s))

\* Two subscribers that subscribed at different times have both received
\* everything published since, the earlier one two values or more.
C24_TwoServed ==
  \E s, t \in Subs :
    /\ Listening(s) /\ Listening(t)
    /\ subs[s].pc = "run" /\ subs[t].pc = "run"
    /\ subs[s].since < subs[t].since
    /\ Len(subs[t].got) >= 1
    /\ Len(subs[s].got) = published - subs[s].since
    /\ Len(subs[t].got) = published - subs[t].since

\* The values in the list that were published after s subscribed.
Due(s) == SelectSeq(channel.log, LAMBDA v : v > subs[s].since)

\* C25: once the channel is closed nothing changes it any more (a Publish
\* is dropped, a second Close does nothing); a subscriber stops on its own
\* only because of the Close, and then it has received everything
\* published since it subscribed; a subscriber with nothing due at the
\* Close, such as one created after it, receives nothing; and after the
\* Close every running subscriber stops.
C25_Close ==
  /\ [][channel.closed => channel' = channel]_vars
  /\ [](\A s \in Subs :
          /\ (subs[s].pc = "done" /\ Listening(s))
               => (/\ channel.closed
                   /\ subs[s].result = "closed"
                   /\ subs[s].got = Due(s))
          /\ (channel.closed /\ subs[s].pc # "new" /\ Due(s) = <<>>)
               => subs[s].got = <<>>)
  /\ \A s \in Subs :
       (channel.closed /\ subs[s].pc = "run") ~> (subs[s].pc = "done")

\* After a Close that followed a delivery and was followed by a dropped
\* Publish, one subscriber has drained its messages and stopped and a
\* subscriber created after all that has stopped with nothing.
C25_DrainedAndLate ==
  \E s, t \in Subs :
    /\ channel.closed
    /\ subs[s].result = "closed" /\ Len(subs[s].got) >= 1
    /\ Listening(s) /\ Listening(t)
    /\ subs[t].result = "closed" /\ subs[t].got = <<>>
    /\ Len(channel.log) >= 1
    /\ subs[t].since > channel.log[Len(channel.log)]

\* C26: a subscriber is handed only values published after it subscribed.
C26_OnlyLater ==
  \A s \in Subs : \A j \in 1..Len(subs[s].got) :
    subs[s].got[j] > subs[s].since

\* A subscriber has received a value although an earlier value, published
\* before it subscribed, is in the list for another subscriber.
C26_LateSubscriber ==
  \E s \in Subs :
    /\ Len(subs[s].got) >= 1
    /\ Len(channel.log) >= 2
    /\ channel.log[1] <= subs[s].since

\* The Wait of consumer p (its own call or the one in its iterator).
InWait(p) == consumers[p].pc = "select"

\* C27: a Wait whose context is not cancelled returns nil once the queue
\* was non-empty when it read the signal or has become non-empty since,
\* whatever Dequeue and Clear do in between; a Wait returns nil only in
\* that case, and returns the context's error only if it was cancelled.
C27_NoLostWakeup ==
  /\ [](\A p \in Consumers :
          /\ consumers[p].result = "nil" => consumers[p].woken
          /\ consumers[p].result = "ctx" => consumers[p].cancelled)
  /\ \A p \in Consumers :
       (InWait(p) /\ consumers[p].woken)
         ~> (consumers[p].result = "nil" \/ consumers[p].cancelled)

\* A Wait that found the queue empty has returned nil after an Enqueue,
\* although the queue was emptied again before it returned.
C27_WokenThenEmptied ==
  /\ consumers["w"].pc = "idle"
  /\ consumers["w"].result = "nil"
  /\ ~consumers["w"].cancelled
  /\ consumers["w"].ch = 1
  /\ Len(queue.items) = 0
  /\ Len(enqueued) = 1

\* The items consumer p took off the queue, in the order it took them.
TakenBy(p) ==
  LET mine == SelectSeq(taken, LAMBDA t : t[2] = p)
  IN [j \in 1..Len(mine) |-> mine[j][1]]

\* C28: the items handed out are enqueued items, each handed out once and
\* in the order of their Enqueue calls; an iterator has yielded exactly
\* the items it dequeued, in that order; and an iterator ends only when
\* its context is cancelled or its loop body breaks, never because the
\* queue is empty.
C28_Consumers ==
  /\ \A i \in 1..Len(taken) :
       /\ \E k \in 1..Len(enqueued) : enqueued[k] = taken[i][1]
       /\ \A j \in 1..Len(taken) : i < j => taken[i][1] < taken[j][1]
  /\ \A p \in Consumers :
       /\ QKind[p] = "All" => consumers[p].yielded = TakenBy(p)
       /\ consumers[p].pc = "done" =>
            \/ consumers[p].result = "break"
            \/ consumers[p].result = "ctx" /\ consumers[p].cancelled

\* The iterator and the Dequeue caller have shared three items, and the
\* iterator, not cancelled, is blocked in Wait on the empty queue.
C28_SharedThenBlocked ==
  /\ Len(taken) = 3
  /\ Len(consumers["a"].yielded) >= 1
  /\ Len(TakenBy("d")) >= 1
  /\ consumers["a"].pc = "select"
  /\ ~consumers["a"].cancelled
  /\ Len(queue.items) = 0
  /\ consumers["a"].ch \notin queue.closed

\* The Set calls that ran, are running or are about to report the function
\* handed to Once.Do, and those that have returned.
Winners ==
  {p \in Setters :
     \/ calls[p].pc \in {"store", "close", "unlock", "return"}
     \/ calls[p].pc = "returned" /\ calls[p].ok}
Returned == {p \in Callers : calls[p].pc = "returned"}

\* C29: at most one Set call gets to store a value, a Set returns false
\* only once another one has closed the done channel, and when all have
\* returned exactly one has returned true; the stored value is the
\* argument of that call and does not change once the done channel is
\* closed; the done channel is never closed twice and stays closed.
C29_SetOnce ==
  /\ [](/\ Cardinality(Winners) <= 1
        /\ future.st = "ok"
        /\ \A p \in Setters :
             calls[p].pc = "returned" =>
               /\ future.done
               /\ \E q \in Winners :
                    /\ future.value = calls[q].arg
                    /\ calls[p].ok <=> p = q
        /\ Setters \subseteq Returned =>
             Cardinality({p \in Setters : calls[p].ok}) = 1)
  /\ [][future.done =>
          future'.done /\ future'.value = future.value]_vars

\* Three Set calls with two different arguments have all returned.
C29_AllReturned ==
  /\ Setters \subseteq Returned
  /\ \E p, q \in Setters :
       calls[p].ok /\ ~calls[q].ok /\ calls[p].arg # calls[q].arg

\* C30: a Get that returned a nil error returned after the done channel
\* was closed, with the value of the one Set that stored; a Get that
\* returned the context's error had its context cancelled; and once the
\* done channel is closed every Get in progress returns, whether it
\* started before or after.
C30_Get ==
  /\ [](\A g \in Getters :
          calls[g].pc = "returned" =>
            /\ calls[g].err = "nil" =>
                 /\ future.done
                 /\ calls[g].val = future.value
                 /\ \E q \in Winners : calls[q].arg = calls[g].val
            /\ calls[g].err = "ctx" => calls[g].cancelled
            /\ calls[g].err \in {"nil", "ctx"})
  /\ \A g \in Getters :
       (calls[g].pc = "select" /\ future.done)
         ~> (calls[g].pc = "returned")

\* One Get that started before the Set and one that started after it have
\* both returned the value, with no context cancelled.
C30_EarlyAndLate ==
  \E g, h \in Getters :
    /\ calls[g].pc = "returned" /\ calls[h].pc = "returned"
    /\ calls[g].err = "nil" /\ calls[h].err = "nil"
    /\ calls[g].early /\ ~calls[h].early
    /\ ~calls[g].cancelled /\ ~calls[h].cancelled
    /\ calls[g].val # zero

\* C36: the wrap view (left) is non-empty only if the front view (right)
\* reaches the end of the backing store, the wrap view starts at slot 0
\* and is no longer than the front view's start offset, and a PopIndex
\* leaves the two views adjacent in this sense.
C36_Layout ==
  /\ ring.left.len > 0 =>
       ring.right.off + ring.right.len = Len(ring.elements)
  /\ ring.left.off = 0
  /\ ring.left.len <= ring.right.off

\* C37: a Fill that directly follows a Compact offers its callback exactly
\* the Cap() - Len() slots behind the elements; on a full ring the
\* callback gets no slot and Fill returns 0.
C37_FillAfterCompact ==
  [][(ret.op = "Compact" /\ st = "ok" /\ ret'.op = "Fill") =>
       /\ ret'.ok =>
            /\ ret'.out[1] = RingLen(ring)
            /\ ret'.out[2] = RingCap(ring) - RingLen(ring)
       /\ ~ret'.ok => RingLen(ring) = RingCap(ring)
       /\ RingLen(ring) = RingCap(ring) => ret'.n = 0]_vars

\* C38: every slot of the backing store outside the two views holds the
\* zero value.
C38_FreeSlotsZero ==
  \A p \in 0..(Len(ring.elements) - 1) :
    p \notin Occupied(ring) => ring.elements[p + 1] = zero

\* A PopIndex has removed an element from behind the front of a wrapped
\* ring that still holds elements in both views.
C38_PoppedInside ==
  /\ ret.op = "PopIndex" /\ ret.ok /\ ret.arg > 0
  /\ ring.left.len > 0
  /\ ring.right.len > 0

\* C39: the queue's current signal channel is closed exactly when the
\* queue holds an item; no channel is closed twice; a step that replaces
\* the channel replaces a closed one by a new open one; so a Wait that
\* reads the signal of an empty queue cannot return nil before an Enqueue.
C39_Signal ==
  /\ [](/\ queue.available \in queue.closed <=> Len(queue.items) > 0
        /\ queue.st = "ok")
  /\ [][/\ queue'.available # queue.available =>
             /\ queue.available \in queue.closed
             /\ queue'.available \notin queue.closed
             /\ queue'.available \notin queue'.closed
         /\ queue.closed \subseteq queue'.closed
         /\ \A p \in Consumers :
              (consumers[p].pc = "select" /\ consumers'[p].pc # "select"
               /\ consumers'[p].result = "nil")
                => consumers[p].woken]_vars

\* After the queue was emptied twice, by Dequeue or Clear, a Wait has read
\* the third signal channel and is blocked on it.
C39_BlockedOnFresh ==
  /\ queue.available = 3
  /\ Len(queue.items) = 0
  /\ consumers["w"].pc = "select"
  /\ consumers["w"].ch = 3
  /\ ~consumers["w"].cancelled

\* C40: the stop channel is never closed twice, however often Cancel is
\* called; the Done channel is closed only when the loop has ended, after
\* which the callback is not invoked again; and after Cancel the loop
\* ends and the Done channel is closed.
C40_Cancel ==
  /\ [](\A s \in Subs :
          /\ subs[s].st = "ok"
          /\ subs[s].done => subs[s].pc = "done")
  /\ [][\A s \in Subs :
          subs[s].done => (subs'[s].done /\ subs'[s].got = subs[s].got)]_vars
  /\ \A s \in Subs :
       (Kind[s] = "Subscribe" /\ subs[s].stop)
         ~> (subs[s].done /\ subs[s].pc = "done")

\* A cancelled subscription has stopped with a published value still
\* undelivered, after delivering another.
C40_StoppedEarly ==
  /\ subs["sub"].stop
  /\ subs["sub"].done
  /\ subs["sub"].result = "stop"
  /\ Len(subs["sub"].got) = 1
  /\ Len(Due("sub")) = 2

\* Position of future i (0-based) in the order the futures were set.
SetRank(i) == CHOOSE k \in 1..Len(setOrder) : setOrder[k] = i + 1

\* C31: the iterator yields each future at most once, set and with its
\* value, in the order the futures were set; and it is never left waiting
\* in its select once every future has been received, so that it ends
\* without the context being cancelled, also for zero futures.
C31_WatchFutures ==
  /\ \A a, b \in 1..Len(watcher.yielded) :
       a < b =>
         /\ watcher.yielded[a][1] # watcher.yielded[b][1]
         /\ SetRank(watcher.yielded[a][1]) < SetRank(watcher.yielded[b][1])
  /\ \A a \in 1..Len(watcher.yielded) :
       LET f == futures[watcher.yielded[a][1] + 1] IN
       f.done /\ f.value = watcher.yielded[a][2]
  /\ watcher.pc = "select" => Len(watcher.yielded) < Len(futures)

\* The last element of a non-empty sequence.
Last(q) == q[Len(q)]

\* C32: the channel a Load returned is closed exactly when a Store or an
\* Update took effect after that Load; a Wait that returned (v, nil)
\* returned a wanted value that the notifier held when it was loaded, and
\* one that returned an error was cancelled; and a Wait that is not
\* cancelled does not stay blocked while the value is the wanted one.
C32_NoLostWakeup ==
  /\ [](\A p \in Listeners :
          /\ listeners[p].pc = "select" =>
               (listeners[p].ch \in notifiers[1].closed
                  <=> listeners[p].at < Len(notifiers[1].held))
          /\ (NKind[p] = "Wait" /\ listeners[p].pc = "returned") =>
               IF listeners[p].err = "nil"
               THEN /\ Wanted(listeners[p].ret)
                    /\ listeners[p].ret = notifiers[1].held[listeners[p].at]
               ELSE listeners[p].cancelled /\ listeners[p].ret = zero)
  /\ \A p \in Listeners :
       []<>(~(/\ NKind[p] = "Wait"
              /\ listeners[p].pc = "select"
              /\ ~listeners[p].cancelled
              /\ Wanted(notifiers[1].value)))

\* A Wait that first loaded an unwanted value has returned the wanted one
\* after an Update and a Store, without being cancelled.
C32_WokenByStore ==
  /\ listeners["wt"].pc = "returned"
  /\ listeners["wt"].err = "nil"
  /\ ~listeners["wt"].cancelled
  /\ listeners["wt"].at = 3
  /\ notifiers[1].how = <<"New", "Update", "Store">>

\* C33: a Watch yields values the notifier held, at strictly increasing
\* positions of its history, beginning with the value current when Watch
\* was called; and a Watch that is neither cancelled nor stopped by its
\* loop body does not stay behind the notifier's last value.
C33_Watch ==
  /\ [](\A p \in Listeners :
          LET me == listeners[p] IN
          /\ Len(me.seen) = Len(me.yielded)
          /\ \A j \in 1..Len(me.seen) :
               /\ me.seen[j] \in 1..Len(notifiers[1].held)
               /\ me.yielded[j] = notifiers[1].held[me.seen[j]]
               /\ j > 1 => me.seen[j - 1] < me.seen[j])
  /\ [][\A p \in Listeners :
          (listeners[p].pc = "idle" /\ listeners'[p].pc = "yield") =>
            /\ listeners'[p].v = notifiers[1].value
            /\ listeners'[p].at = Len(notifiers[1].held)]_vars
  /\ \A p \in Listeners : \A k \in 1..(MaxStore + 1) :
       []<>(~(/\ NKind[p] = "Watch"
              /\ listeners[p].pc \in {"yield", "select"}
              /\ ~listeners[p].cancelled
              /\ Len(notifiers[1].held) = k
              /\ (listeners[p].seen = <<>> \/ Last(listeners[p].seen) # k)))

\* A Watch has yielded the initial value and the last of two later values,
\* skipping the one in between.
C33_SkippedOne ==
  /\ listeners["wa"].seen = <<1, 3>>
  /\ ~listeners["wa"].cancelled
  /\ Len(notifiers[1].held) = 3

\* C34: each value stored by an Update is the function's result on the
\* value stored just before it, so the value is what the calls give when
\* applied one at a time in the order they took effect; an Update returns
\* the value it stored; and every Store and Update closes every channel
\* made before it.
C34_UpdateAtomic ==
  /\ [](LET n == notifiers[1] IN
        /\ n.value = Last(n.held)
        /\ n.st = "ok"
        /\ \A k \in 2..Len(n.held) :
             n.how[k] = "Update" => n.held[k] = Bump(n.held[k - 1])
        /\ \A p \in Listeners :
             (NKind[p] = "Update" /\ listeners[p].pc = "returned") =>
               /\ n.how[listeners[p].at] = "Update"
               /\ listeners[p].ret = n.held[listeners[p].at])
  /\ [][notifiers'[1].held # notifiers[1].held =>
          /\ Len(notifiers'[1].held) = Len(notifiers[1].held) + 1
          /\ \A c \in 1..notifiers[1].made : c \in notifiers'[1].closed]_vars

\* Two Updates have both returned, one after the other's value, while a
\* Wait and a Watch were listening.
C34_BothUpdated ==
  /\ listeners["u1"].pc = "returned" /\ listeners["u2"].pc = "returned"
  /\ listeners["u1"].ret # listeners["u2"].ret
  /\ notifiers[1].value = 2
  /\ notifiers[1].made >= 2

\* C35: WaitAny returns (v, i) with i >= 0 only for a wanted value v that
\* notifier i held when it was loaded; it returns index -1 only with the
\* zero value and a cancelled context; and when its context was cancelled
\* it returns the zero value and index -1.
C35_WaitAny ==
  anyone.pc = "returned" =>
    /\ anyone.idx >= 0 =>
         /\ anyone.idx < Len(anyone.objs)
         /\ Wanted(anyone.val)
         /\ anyone.val =
              notifiers[anyone.objs[anyone.idx + 1]].held[anyone.from]
    /\ anyone.idx < 0 =>
         anyone.idx = 0 - 1 /\ anyone.val = zero /\ anyone.cancelled
    /\ anyone.pre => (anyone.idx = 0 - 1 /\ anyone.val = zero)

====
